---- MODULE Spec2Model ----
(***************************************************************************)
(* Computer Use Protocol (CUP): tree pruning (cup/format.py), the compact  *)
(* serializer's walk, and the ephemeral reference registry of the action   *)
(* executor.                                                               *)
(*                                                                         *)
(* A CUP node is a record [id, role, name, states, actions, children].     *)
(* The id "e<N>" is modelled by the number N.  A node without a "children" *)
(* key is modelled with children = <<>>: the code reads the key only with  *)
(* node.get("children", []) and never emits an empty list.                 *)
(***************************************************************************)
EXTENDS Integers, Sequences, FiniteSets, Bags, TLC

VARIABLES tree, detail, out, prev, pc,
          refs, serial, issued, installed, lastCall,
          element, built,
          request, captured,
          shown, lines,
          sys_platform, adapter_instance, adapters

pruneVars == <<tree, detail, out, prev, pc>>
sessionVars == <<refs, serial, issued, installed, lastCall>>
builderVars == <<element, built>>
walkVars == <<request, captured>>
lineVars == <<shown, lines>>
routerVars == <<sys_platform, adapter_instance, adapters>>
vars == <<tree, detail, out, prev, pc, refs, serial, issued, installed, lastCall,
          element, built, request, captured, shown, lines,
          sys_platform, adapter_instance, adapters>>

\* ------------------------------------------------------------------------
\* Bounds
\* ------------------------------------------------------------------------
MaxNodes == 3
MaxCaptures == 2
MaxBatch == 2

\* ------------------------------------------------------------------------
\* Input nodes
\* ------------------------------------------------------------------------
Details == {"full", "standard", "minimal"}

Attr(role, name, states, actions) ==
  [role |-> role, name |-> name, states |-> states, actions |-> actions]

\* The attribute combinations the captured nodes are drawn from.
NodeKinds ==
  { Attr("generic", "",  <<>>,            <<>>),
    Attr("group",   "",  <<"offscreen">>, <<"focus">>),
    Attr("group",   "",  <<>>,            <<"click">>),
    Attr("text",    "A", <<>>,            <<>>),
    Attr("img",     "",  <<>>,            <<"click">>),
    Attr("button",  "B", <<>>,            <<"click">>),
    Attr("button",  "",  <<"offscreen">>, <<"focus">>),
    Attr("button",  "",  <<"offscreen">>, <<"click">>),
    Attr("window",  "W", <<"offscreen">>, <<>>) }

RECURSIVE AncSelf(_, _)
AncSelf(p, j) == IF j = 0 THEN {0} ELSE {j} \cup AncSelf(p, p[j])

\* Parent vectors of the forests with n nodes numbered in preorder:
\* node i hangs under node p[i] (0 = the root list).
ParentVecs(n) ==
  { p \in [1..n -> 0..n] :
      \A i \in 1..n : /\ p[i] < i
                      /\ (i > 1 => p[i] \in AncSelf(p, i - 1)) }

RECURSIVE BuildKids(_, _, _, _, _)
BuildKids(p, k, n, i, j) ==
  IF j > n THEN <<>>
  ELSE (IF p[j] = i
        THEN << [id |-> j - 1, role |-> k[j].role, name |-> k[j].name,
                 states |-> k[j].states, actions |-> k[j].actions,
                 children |-> BuildKids(p, k, n, j, j + 1)] >>
        ELSE <<>>)
       \o BuildKids(p, k, n, i, j + 1)

\* The captured tree of n nodes with shape p and attributes k; ids follow
\* the preorder.
CapturedTree(n, p, k) == BuildKids(p, k, n, 0, 1)

\* ------------------------------------------------------------------------
\* Helpers on lists
\* ------------------------------------------------------------------------
Contains(s, x) == \E i \in DOMAIN s : s[i] = x

Strip(node) ==
  [id |-> node.id, role |-> node.role, name |-> node.name,
   states |-> node.states, actions |-> node.actions]

\* Preorder list of the nodes of a forest, each with the id of its parent
\* (-1 for a root), the length of the list it sits in, and its depth.
RECURSIVE FlatFrom(_, _, _, _)
FlatFrom(nodes, i, par, depth) ==
  IF i > Len(nodes) THEN <<>>
  ELSE << [n |-> Strip(nodes[i]), par |-> par, sibs |-> Len(nodes),
           depth |-> depth, kids |-> Len(nodes[i].children)] >>
       \o FlatFrom(nodes[i].children, 1, nodes[i].id, depth + 1)
       \o FlatFrom(nodes, i + 1, par, depth)

Flat(forest) == FlatFrom(forest, 1, -1, 0)

\* The ids of a flattened forest, as a set, as counts and as a multiset.
Ids(F) == { F[i].n.id : i \in DOMAIN F }

IdCount(F, id) == Cardinality({ i \in DOMAIN F : F[i].n.id = id })

IdBag(F) == [ id \in Ids(F) |-> IdCount(F, id) ]

\* ------------------------------------------------------------------------
\* cup/format.py
\* ------------------------------------------------------------------------
RECURSIVE count_nodes(_)
count_nodes(nodes) ==
  IF nodes = <<>> THEN 0
  ELSE 1 + count_nodes(Head(nodes).children) + count_nodes(Tail(nodes))

\* Variant: any action counts, focus included.
has_meaningful_actions_any(node) == node.actions # <<>>

has_meaningful_actions(node) ==
  \E i \in DOMAIN node.actions : node.actions[i] # "focus"

\* Variant: the offscreen rule without the name test.
should_skip_offscreen_named(node, parent, siblings) ==
  \/ /\ Contains(node.states, "offscreen")
     /\ ~ has_meaningful_actions(node)
  \/ node.role = "img" /\ node.name = ""
  \/ node.role = "text" /\ node.name = ""
  \/ /\ node.role = "text"
     /\ parent # <<>>
     /\ parent[1].name # ""
     /\ siblings = 1

\* parent is <<>> for None and <<node>> otherwise.
should_skip(node, parent, siblings) ==
  \/ /\ Contains(node.states, "offscreen")
     /\ node.name = ""
     /\ ~ has_meaningful_actions(node)
  \/ node.role = "img" /\ node.name = ""
  \/ node.role = "text" /\ node.name = ""
  \/ /\ node.role = "text"
     /\ parent # <<>>
     /\ parent[1].name # ""
     /\ siblings = 1

should_hoist(node) ==
  \/ node.role = "generic" /\ node.name = ""
  \/ /\ node.role = "group"
     /\ node.name = ""
     /\ ~ has_meaningful_actions(node)

\* Variant: the copy leaves the actions out.
copy_node_no_actions(node, kids) ==
  [id |-> node.id, role |-> node.role, name |-> node.name,
   states |-> node.states, actions |-> <<>>, children |-> kids]

\* {k: v for k, v in node.items() if k != "children"}, then the children
\* key when the list is not empty.
copy_node(node, kids) ==
  [id |-> node.id, role |-> node.role, name |-> node.name,
   states |-> node.states, actions |-> node.actions, children |-> kids]

RECURSIVE prune_node(_, _, _), prune_each(_, _, _, _)
prune_each(children, i, parent, siblings) ==
  IF i > Len(children) THEN <<>>
  ELSE prune_node(children[i], parent, siblings)
       \o prune_each(children, i + 1, parent, siblings)

\* Variant: a hoisted node hands its children over unpruned.
prune_node_one_level(node, parent, siblings) ==
  IF should_hoist(node)
  THEN node.children
  ELSE IF should_skip(node, parent, siblings)
  THEN <<>>
  ELSE << copy_node(node,
                    prune_each(node.children, 1, <<node>>, Len(node.children))) >>

prune_node(node, parent, siblings) ==
  IF should_hoist(node)
  THEN prune_each(node.children, 1, parent, Len(node.children))
  ELSE IF should_skip(node, parent, siblings)
  THEN <<>>
  ELSE << copy_node(node,
                    prune_each(node.children, 1, <<node>>, Len(node.children))) >>

\* The result is <<>> for None and <<pruned>> otherwise.
RECURSIVE prune_minimal_node(_), prune_minimal_each(_, _)
prune_minimal_each(children, i) ==
  IF i > Len(children) THEN <<>>
  ELSE prune_minimal_node(children[i]) \o prune_minimal_each(children, i + 1)

\* Variant: the keep test looks at the raw children, not the kept ones.
prune_minimal_node_raw_children(node) ==
  LET kept_children == prune_minimal_each(node.children, 1)
  IN  IF has_meaningful_actions(node) \/ node.children # <<>>
      THEN << copy_node(node, kept_children) >>
      ELSE <<>>

prune_minimal_node(node) ==
  LET kept_children == prune_minimal_each(node.children, 1)
  IN  IF has_meaningful_actions(node) \/ kept_children # <<>>
      THEN << copy_node(node, kept_children) >>
      ELSE <<>>

\* Variant: "full" is not told apart and falls through to standard.
prune_tree_no_full(t, d) ==
  IF d = "minimal" THEN prune_minimal_each(t, 1)
  ELSE prune_each(t, 1, <<>>, Len(t))

prune_tree(t, d) ==
  IF d = "full" THEN t
  ELSE IF d = "minimal" THEN prune_minimal_each(t, 1)
  ELSE prune_each(t, 1, <<>>, Len(t))

\* ------------------------------------------------------------------------
\* Pruning a captured tree, and pruning the result once more
\* ------------------------------------------------------------------------
InitSession ==
  /\ refs = <<>>
  /\ serial = 0
  /\ issued = <<>>
  /\ installed = <<>>
  /\ lastCall = [op |-> "none"]

\* No element has been handed to the node builder.
InitBuilder ==
  /\ element = <<>>
  /\ built = <<>>

\* No capture has been requested.
InitWalk ==
  /\ request = <<>>
  /\ captured = <<>>

\* Nothing has been serialized.
InitLine ==
  /\ shown = <<>>
  /\ lines = <<>>

\* No adapter has been asked for.
InitRouter ==
  /\ sys_platform = "win32"
  /\ adapter_instance = <<>>
  /\ adapters = <<>>

InitPrune ==
  /\ \E n \in 0..MaxNodes :
       \E p \in ParentVecs(n), k \in [1..n -> NodeKinds] :
         tree = CapturedTree(n, p, k)
  /\ detail = "standard"
  /\ out = <<>>
  /\ prev = <<>>
  /\ pc = "raw"
  /\ InitSession
  /\ InitBuilder
  /\ InitWalk
  /\ InitLine
  /\ InitRouter

Prune(d) ==
  /\ pc = "raw"
  /\ out' = prune_tree(tree, d)
  /\ detail' = d
  /\ pc' = "pruned"
  /\ UNCHANGED <<tree, prev>>
  /\ UNCHANGED <<sessionVars, builderVars, walkVars, lineVars, routerVars>>

PruneAgain ==
  /\ pc = "pruned"
  /\ prev' = out
  /\ out' = prune_tree(out, detail)
  /\ pc' = "repruned"
  /\ UNCHANGED <<tree, detail>>
  /\ UNCHANGED <<sessionVars, builderVars, walkVars, lineVars, routerVars>>

NextPrune ==
  \/ \E d \in Details : Prune(d)
  \/ PruneAgain

\* ------------------------------------------------------------------------
\* Properties of pruning
\* ------------------------------------------------------------------------
Pruned(d) == pc = "pruned" /\ detail = d

\* The entry of the node with the given id in a flattened forest.
Rec(F, id) == F[CHOOSE i \in DOMAIN F : F[i].n.id = id]

\* The claims' own vocabulary, stated on the stripped nodes.
Interactive(n) == \E i \in DOMAIN n.actions : n.actions[i] # "focus"

Wrapper(n) ==
  \/ n.role = "generic" /\ n.name = ""
  \/ n.role = "group" /\ n.name = "" /\ ~ Interactive(n)

OffscreenNoise(n) ==
  /\ \E i \in DOMAIN n.states : n.states[i] = "offscreen"
  /\ n.name = ""
  /\ ~ Interactive(n)

ParentArg(F, id) == IF id = -1 THEN <<>> ELSE << Rec(F, id).n >>

\* a is a proper ancestor of x in the flattened forest F.
RECURSIVE IsAnc(_, _, _)
IsAnc(F, a, x) ==
  LET p == Rec(F, x).par
  IN  p # -1 /\ (p = a \/ IsAnc(F, a, p))

\* The nearest proper ancestor of x that is not a wrapper (-1 if none).
RECURSIVE NearestKept(_, _)
NearestKept(F, x) ==
  LET p == Rec(F, x).par
  IN  IF p = -1 THEN -1
      ELSE IF Wrapper(Rec(F, p).n) THEN NearestKept(F, p) ELSE p

\* Every proper ancestor of x is in the output (ids O) or is a wrapper:
\* the pruning pass gets as far as x.
RECURSIVE Reached(_, _, _)
Reached(F, O, x) ==
  LET p == Rec(F, x).par
  IN  p = -1 \/ ((p \in O \/ Wrapper(Rec(F, p).n)) /\ Reached(F, O, p))

\* C1: every node of a pruned tree, at every detail level, carries an id
\* that occurs exactly once in the input tree and once in the output, and
\* all of its fields other than children equal those of the input node.
C1_IdPreservation ==
  pc = "pruned" =>
    LET FO == Flat(out)
        FI == Flat(tree)
    IN  \A i \in DOMAIN FO :
          /\ IdCount(FI, FO[i].n.id) = 1
          /\ IdCount(FO, FO[i].n.id) = 1
          /\ Rec(FI, FO[i].n.id).n = FO[i].n

\* C1 witness: standard pruning removed a node and the survivors kept
\* their original (now gapped) ids.
C1_Witness ==
  /\ Pruned("standard")
  /\ out # <<>>
  /\ count_nodes(out) < count_nodes(tree)
  /\ out[1].id # 0

\* C2 (as claimed): standard pruning keeps every node that has an action
\* other than focus.
C2_InteractivePreserved ==
  Pruned("standard") =>
    LET FI == Flat(tree)
        O == Ids(Flat(out))
    IN  \A i \in DOMAIN FI : Interactive(FI[i].n) => FI[i].n.id \in O

C4_Idempotent == pc = "repruned" => out = prev

\* C4 (amended): full and minimal pruning are idempotent; a second
\* standard pass never adds or changes a node but may remove further ones.
C4_IdempotentFullMinimal ==
  pc = "repruned" =>
    /\ detail \in {"full", "minimal"} => out = prev
    /\ detail = "standard" =>
         LET FO == Flat(out)
             FP == Flat(prev)
         IN  /\ IdBag(FO) \sqsubseteq IdBag(FP)
             /\ \A i \in DOMAIN FO : \E j \in DOMAIN FP : FP[j].n = FO[i].n

\* C4 witness: a minimal result that dropped nodes, kept some, and was
\* pruned again.
C4_Witness ==
  /\ pc = "repruned"
  /\ detail = "minimal"
  /\ prev # <<>>
  /\ prev # tree
  /\ out = prev

\* C5: in standard pruning no wrapper (unnamed generic, or unnamed group
\* without an action other than focus) is in the output; every output
\* node sits under its nearest non-wrapper ancestor (or in the root list),
\* in the original order; and every non-skipped child of a wrapper whose
\* nearest non-wrapper ancestor is kept (or absent) is in the output.
C5_Hoisting ==
  Pruned("standard") =>
    LET FO == Flat(out)
        FI == Flat(tree)
        O == Ids(FO)
    IN  /\ \A i \in DOMAIN FO : ~ Wrapper(FO[i].n)
        /\ \A i \in DOMAIN FO : FO[i].par = NearestKept(FI, FO[i].n.id)
        /\ \A i, j \in DOMAIN FO : i < j => FO[i].n.id < FO[j].n.id
        /\ \A i \in DOMAIN FI :
             LET x == FI[i]
                 a == NearestKept(FI, x.n.id)
             IN  ( /\ x.par # -1
                   /\ Wrapper(Rec(FI, x.par).n)
                   /\ ~ Wrapper(x.n)
                   /\ (a = -1 \/ a \in O)
                   /\ ~ should_skip(x.n, ParentArg(FI, a), x.sibs) )
                 => x.n.id \in O

\* C5 witness: an output node that was hoisted through two nested
\* wrappers.
C5_Witness ==
  /\ Pruned("standard")
  /\ LET FO == Flat(out)
         FI == Flat(tree)
     IN  \E i \in DOMAIN FO :
           LET p == Rec(FI, FO[i].n.id).par
           IN  /\ p # -1
               /\ Wrapper(Rec(FI, p).n)
               /\ Rec(FI, p).par # -1
               /\ Wrapper(Rec(FI, Rec(FI, p).par).n)

\* C6 (as claimed): a named text node that the pass reaches is dropped
\* exactly when its parent is named and it is that parent's only child.
C6_RedundantLabel ==
  Pruned("standard") =>
    LET FI == Flat(tree)
        O == Ids(Flat(out))
    IN  \A i \in DOMAIN FI :
          LET x == FI[i]
          IN  (x.n.role = "text" /\ x.n.name # "" /\ Reached(FI, O, x.n.id)) =>
                ( x.n.id \notin O
                  <=> (x.par # -1 /\ Rec(FI, x.par).n.name # "" /\ x.sibs = 1) )

\* C7 (as claimed): an offscreen, unnamed node without an action other
\* than focus is dropped with all its descendants whatever its role; a
\* reached offscreen node that is named or interactive, and that no other
\* rule removes, is kept.
C7_OffscreenSkip ==
  Pruned("standard") =>
    LET FI == Flat(tree)
        O == Ids(Flat(out))
    IN  \A i \in DOMAIN FI :
          LET x == FI[i]
          IN  /\ OffscreenNoise(x.n) =>
                   /\ x.n.id \notin O
                   /\ \A j \in DOMAIN FI :
                        IsAnc(FI, x.n.id, FI[j].n.id) => FI[j].n.id \notin O
              /\ ( /\ Contains(x.n.states, "offscreen")
                   /\ ~ OffscreenNoise(x.n)
                   /\ Reached(FI, O, x.n.id)
                   /\ ~ Wrapper(x.n)
                   /\ x.n.role \notin {"img", "text"} )
                 => x.n.id \in O

\* C7 (amended): an offscreen, unnamed node without an action other than
\* focus that is not a hoisted wrapper (unnamed generic or group) is
\* dropped with all its descendants; a reached offscreen node that is
\* named or interactive, and that no other rule removes, is kept.
C7_OffscreenSkipUnlessHoisted ==
  Pruned("standard") =>
    LET FI == Flat(tree)
        O == Ids(Flat(out))
    IN  \A i \in DOMAIN FI :
          LET x == FI[i]
          IN  /\ (OffscreenNoise(x.n) /\ ~ Wrapper(x.n)) =>
                   /\ x.n.id \notin O
                   /\ \A j \in DOMAIN FI :
                        IsAnc(FI, x.n.id, FI[j].n.id) => FI[j].n.id \notin O
              /\ ( /\ Contains(x.n.states, "offscreen")
                   /\ ~ OffscreenNoise(x.n)
                   /\ Reached(FI, O, x.n.id)
                   /\ ~ Wrapper(x.n)
                   /\ x.n.role \notin {"img", "text"} )
                 => x.n.id \in O

\* C7 witness: a reached offscreen, unnamed, non-wrapper node without a
\* real action was dropped together with a named interactive child.
C7_Witness ==
  /\ Pruned("standard")
  /\ LET FI == Flat(tree)
         O == Ids(Flat(out))
     IN  \E i, j \in DOMAIN FI :
           LET x == FI[i]
               y == FI[j]
           IN  /\ OffscreenNoise(x.n)
               /\ ~ Wrapper(x.n)
               /\ Reached(FI, O, x.n.id)
               /\ y.par = x.n.id
               /\ Interactive(y.n)
               /\ y.n.name # ""
               /\ x.n.id \notin O
               /\ y.n.id \notin O

\* C8: minimal pruning retains a node exactly when it has an action other
\* than focus or one of its descendants is retained; every leaf of the
\* output is interactive; every retained node keeps its parent, depth and
\* fields (ids are not renumbered).
C8_Minimal ==
  Pruned("minimal") =>
    LET FO == Flat(out)
        FI == Flat(tree)
        O == Ids(FO)
    IN  /\ \A i \in DOMAIN FI :
             FI[i].n.id \in O
               <=> \/ Interactive(FI[i].n)
                   \/ \E j \in DOMAIN FI : /\ FI[j].n.id \in O
                                           /\ IsAnc(FI, FI[i].n.id, FI[j].n.id)
        /\ \A i \in DOMAIN FO : FO[i].kids = 0 => Interactive(FO[i].n)
        /\ \A i \in DOMAIN FO :
             /\ IdCount(FI, FO[i].n.id) = 1
             /\ FO[i].n = Rec(FI, FO[i].n.id).n
             /\ FO[i].par = Rec(FI, FO[i].n.id).par
             /\ FO[i].depth = Rec(FI, FO[i].n.id).depth

\* C8 witness: a non-interactive ancestor kept above an interactive node
\* while another node was dropped.
C8_Witness ==
  /\ Pruned("minimal")
  /\ count_nodes(out) < count_nodes(tree)
  /\ LET FO == Flat(out)
     IN  \E i \in DOMAIN FO : ~ Interactive(FO[i].n) /\ FO[i].kids > 0

SpecPrune == InitPrune /\ [][NextPrune]_vars

\* ------------------------------------------------------------------------
\* Session: captures, the reference registry and the action executor
\* ------------------------------------------------------------------------
VALID_ACTIONS ==
  { "click", "collapse", "decrement", "dismiss", "doubleclick",
    "expand", "focus", "increment", "longpress", "rightclick",
    "scroll", "select", "setvalue", "toggle", "type" }

\* The actions a caller may ask for: canonical ones and one that is not.
RequestedActions == {"click", "focus", "fly"}

\* The native handle of node i of capture number s.
Handle(s, i) == [snap |-> s, node |-> i]

\* The bindings a capture of n nodes produces: ids e0 .. e(n-1), numbered
\* from a counter that starts at 0 in every capture.
capture_refs(s, n) == [ i \in 0..(n - 1) |-> Handle(s, i) ]

\* Variant: new bindings are merged into the old registry.
set_refs_merge(old, new) ==
  [ i \in (DOMAIN old) \cup (DOMAIN new) |->
      IF i \in DOMAIN new THEN new[i] ELSE old[i] ]

\* ActionExecutor.set_refs: the registry becomes the given mapping.
set_refs(old, new) == new

Failure(err) == [success |-> FALSE, error |-> err, handle |-> <<>>]

\* Variant: the action is validated before the registry lookup.
execute_action_first(registry, id, action, ok) ==
  IF action \notin VALID_ACTIONS THEN Failure("UnknownAction")
  ELSE IF id \notin DOMAIN registry THEN Failure("UnknownElement")
  ELSE [success |-> ok,
        error |-> IF ok THEN "" ELSE "ActionFailed",
        handle |-> << registry[id] >>]

\* ActionExecutor.execute: registry lookup, action validation, dispatch.
\* ok is the outcome of the platform handler when it is reached.
execute(registry, id, action, ok) ==
  IF id \notin DOMAIN registry THEN Failure("UnknownElement")
  ELSE IF action \notin VALID_ACTIONS THEN Failure("UnknownAction")
  ELSE [success |-> ok,
        error |-> IF ok THEN "" ELSE "ActionFailed",
        handle |-> << registry[id] >>]

\* One step of a batch: a press_keys spec or an element action.
run_step(registry, step, ok) ==
  IF step.action = "press_keys"
  THEN [success |-> ok, error |-> IF ok THEN "" ELSE "ActionFailed",
        handle |-> <<>>]
  ELSE execute(registry, step.id, step.action, ok)

\* Session.batch_execute: run the specs in order, stop at the first failure.
RECURSIVE batch_execute(_, _, _, _)
batch_execute(registry, steps, oks, i) ==
  IF i > Len(steps) THEN <<>>
  ELSE LET r == run_step(registry, steps[i], oks[i])
       IN  IF r.success
           THEN << r >> \o batch_execute(registry, steps, oks, i + 1)
           ELSE << r >>

BatchSteps ==
  { [id |-> 0, action |-> "click"],
    [id |-> MaxNodes, action |-> "click"],
    [id |-> 0, action |-> "press_keys"] }

InitRun ==
  /\ tree = <<>>
  /\ detail = "standard"
  /\ out = <<>>
  /\ prev = <<>>
  /\ pc = "raw"
  /\ InitSession
  /\ InitBuilder
  /\ InitWalk
  /\ InitLine
  /\ InitRouter

\* A capture of n nodes completes and publishes its bindings.
Capture(n) ==
  /\ serial < MaxCaptures
  /\ serial' = serial + 1
  /\ refs' = set_refs(refs, capture_refs(serial + 1, n))
  /\ installed' = capture_refs(serial + 1, n)
  /\ issued' = Append(issued, n)
  /\ lastCall' = [op |-> "capture"]
  /\ UNCHANGED <<pruneVars, builderVars, walkVars, lineVars, routerVars>>

\* The caller executes an action with id e<id>, which it read from
\* snapshot number from (0: from no snapshot at all).
Execute(from, id, action, ok) ==
  /\ from <= serial
  /\ from > 0 => id < issued[from]
  /\ lastCall' = [op |-> "execute", from |-> from, id |-> id,
                  action |-> action, result |-> execute(refs, id, action, ok)]
  /\ UNCHANGED <<refs, serial, issued, installed>>
  /\ UNCHANGED <<pruneVars, builderVars, walkVars, lineVars, routerVars>>

PressKeys(ok) ==
  /\ lastCall' = [op |-> "press_keys",
                  result |-> [success |-> ok,
                              error |-> IF ok THEN "" ELSE "ActionFailed",
                              handle |-> <<>>]]
  /\ UNCHANGED <<refs, serial, issued, installed>>
  /\ UNCHANGED <<pruneVars, builderVars, walkVars, lineVars, routerVars>>

BatchExecute(steps, oks) ==
  /\ lastCall' = [op |-> "batch_execute", steps |-> steps,
                  results |-> batch_execute(refs, steps, oks, 1)]
  /\ UNCHANGED <<refs, serial, issued, installed>>
  /\ UNCHANGED <<pruneVars, builderVars, walkVars, lineVars, routerVars>>

\* The summary entry the batch_actions tool writes for result number i.
summary_entry(i, result) ==
  [step |-> i, success |-> result.success, error |-> result.error]

\* Variant: all_success is never cleared.
batch_actions_always_success(registry, steps, oks) ==
  IF steps = <<>>
  THEN [success |-> FALSE, message |-> "", error |-> "No actions provided."]
  ELSE LET results == batch_execute(registry, steps, oks, 1)
       IN  [success |-> TRUE,
            executed |-> Len(results),
            total |-> Len(steps),
            results |-> [ i \in DOMAIN results |-> summary_entry(i, results[i]) ]]

\* mcp/server.py batch_actions: the response for a list of action specs.
batch_actions(registry, steps, oks) ==
  IF steps = <<>>
  THEN [success |-> FALSE, message |-> "", error |-> "No actions provided."]
  ELSE LET results == batch_execute(registry, steps, oks, 1)
       IN  [success |-> \A i \in DOMAIN results : results[i].success,
            executed |-> Len(results),
            total |-> Len(steps),
            results |-> [ i \in DOMAIN results |-> summary_entry(i, results[i]) ]]

\* The batch_actions tool is called with a list of action specs; results
\* is what Session.batch_execute handed back to it (nothing for an empty
\* list, for which the session is not called).
BatchActions(steps, oks) ==
  /\ lastCall' = [op |-> "batch_actions", steps |-> steps,
                  results |-> IF steps = <<>> THEN <<>>
                              ELSE batch_execute(refs, steps, oks, 1),
                  response |-> batch_actions(refs, steps, oks)]
  /\ UNCHANGED <<refs, serial, issued, installed>>
  /\ UNCHANGED <<pruneVars, builderVars, walkVars, lineVars, routerVars>>

NextRun ==
  \/ \E n \in 0..MaxNodes : Capture(n)
  \/ \E from \in 0..MaxCaptures, id \in 0..MaxNodes :
       \E action \in RequestedActions, ok \in BOOLEAN :
         Execute(from, id, action, ok)
  \/ \E ok \in BOOLEAN : PressKeys(ok)
  \/ \E len \in 1..MaxBatch :
       \E steps \in [1..len -> BatchSteps], oks \in [1..len -> BOOLEAN] :
         BatchExecute(steps, oks)

\* Captures and calls of the batch_actions tool.
NextBatch ==
  \/ \E n \in 0..MaxNodes : Capture(n)
  \/ \E len \in 0..MaxBatch :
       \E steps \in [1..len -> BatchSteps], oks \in [1..len -> BOOLEAN] :
         BatchActions(steps, oks)

\* C9 (as claimed): an execute with an id read from a snapshot older than
\* the latest capture fails with UnknownElement and reaches no handle.
C9_StaleIdRejected ==
  (lastCall.op = "execute" /\ lastCall.from > 0 /\ lastCall.from < serial) =>
    /\ ~ lastCall.result.success
    /\ lastCall.result.error = "UnknownElement"
    /\ lastCall.result.handle = <<>>

\* C10: at every point the registry is exactly the mapping handed to the
\* most recent set_refs (empty before the first capture), and execute,
\* press_keys and batch_execute leave it unchanged.
C10_RegistryIsLatest ==
  /\ [](refs = installed)
  /\ [][ lastCall'.op \in {"execute", "press_keys", "batch_execute"}
          => refs' = refs ]_vars

\* C10 witness: a second capture replaced a registry that held an id the
\* new capture did not issue, and an action ran afterwards.
C10_Witness ==
  /\ serial = 2
  /\ issued[1] > issued[2]
  /\ issued[2] > 0
  /\ lastCall.op = "batch_execute"
  /\ Len(lastCall.results) = 2

\* C11: execute validates before dispatching.  An id that is not in the
\* registry gives a failed result reporting the unknown element, whatever
\* the action; otherwise an action outside the 15 canonical ones gives a
\* failed result reporting the unknown action; in both cases no handler is
\* reached and the call returns a result.
C11_ValidateBeforeDispatch ==
  /\ Cardinality(VALID_ACTIONS) = 15
  /\ lastCall.op = "execute" =>
       LET r == lastCall.result
       IN  /\ r.success \in BOOLEAN
           /\ lastCall.id \notin DOMAIN refs =>
                /\ ~ r.success
                /\ r.error = "UnknownElement"
                /\ r.handle = <<>>
           /\ (lastCall.id \in DOMAIN refs /\ lastCall.action \notin VALID_ACTIONS) =>
                /\ ~ r.success
                /\ r.error = "UnknownAction"
                /\ r.handle = <<>>

\* C11 witness: a non-canonical action on an id that is missing from a
\* non-empty registry was reported as an unknown element.
C11_Witness ==
  /\ lastCall.op = "execute"
  /\ refs # <<>>
  /\ lastCall.id \notin DOMAIN refs
  /\ lastCall.action = "fly"
  /\ lastCall.result.error = "UnknownElement"

\* The results are those of a prefix of the steps, run in order (for some
\* outcomes oks of the handlers) and cut after the first failure.
StopsAtFirstFailure(registry, steps, results) ==
  /\ Len(results) <= Len(steps)
  /\ steps # <<>> => results # <<>>
  /\ \E oks \in [DOMAIN steps -> BOOLEAN] :
       \A i \in DOMAIN results : results[i] = run_step(registry, steps[i], oks[i])
  /\ \A i \in DOMAIN results : i < Len(results) => results[i].success
  /\ Len(results) < Len(steps) => ~ results[Len(results)].success

\* What the batch_actions response must say about a list of steps and the
\* results returned for it.
ReportsBatch(registry, steps, results, r) ==
  /\ {"success", "executed", "total", "results"} \subseteq DOMAIN r
  /\ r.total = Len(steps)
  /\ r.executed = Len(results)
  /\ r.executed <= r.total
  /\ r.success <=> \A i \in DOMAIN results : results[i].success
  /\ DOMAIN r.results = DOMAIN results
  /\ \A i \in DOMAIN results :
       /\ r.results[i].step = i
       /\ r.results[i].success = results[i].success
       /\ r.results[i].error = results[i].error

\* C12 (as claimed): batch_execute returns the results of a prefix of the
\* list, all successes except possibly the last, nothing run after the
\* first failure; batch_actions reports executed = number of results <=
\* total, with success true exactly when every returned result succeeded.
C12_BatchStopsAtFirstFailure ==
  lastCall.op = "batch_actions" =>
    /\ StopsAtFirstFailure(refs, lastCall.steps, lastCall.results)
    /\ ReportsBatch(refs, lastCall.steps, lastCall.results, lastCall.response)

\* C12 (amended): the same, with the batch_actions report limited to a
\* non-empty list; for an empty list the tool reports a failure
\* ("No actions provided.") without the executed and total counts.
C12_BatchStopsNonEmpty ==
  /\ lastCall.op = "batch_actions" =>
       StopsAtFirstFailure(refs, lastCall.steps, lastCall.results)
  /\ (lastCall.op = "batch_actions" /\ lastCall.steps # <<>>) =>
       ReportsBatch(refs, lastCall.steps, lastCall.results, lastCall.response)
  /\ (lastCall.op = "batch_actions" /\ lastCall.steps = <<>>) =>
       /\ ~ lastCall.response.success
       /\ lastCall.response.error = "No actions provided."
       /\ "executed" \notin DOMAIN lastCall.response

\* C12 witness: a batch of two steps stopped after its first step failed.
C12_Witness ==
  /\ lastCall.op = "batch_actions"
  /\ Len(lastCall.steps) = 2
  /\ lastCall.response.total = 2
  /\ lastCall.response.executed = 1
  /\ ~ lastCall.response.success

SpecRun == InitRun /\ [][NextRun]_vars

SpecBatch == InitRun /\ [][NextBatch]_vars

\* ------------------------------------------------------------------------
\* bench_a11y_tree_fast.py: the node builder
\*
\* A cached property of a native element is [ok, v]: ok = FALSE stands for
\* a read that raises (or yields no value), and v is then not looked at.
\* The description, bounds and platform fields of the built node are left
\* out; a node without a value, states or actions key has "" or <<>> there.
\* ------------------------------------------------------------------------
Ok(v) == [ok |-> TRUE, v |-> v]

Unreadable(filler) == [ok |-> FALSE, v |-> filler]

\* _cached_bool / _cached_int / _cached_str: the value, or the default
\* when the read fails.
cached_value(p, default) == IF p.ok THEN p.v ELSE default

TEXT_INPUT_ROLES == {"textbox", "searchbox", "combobox", "document"}

\* CUP_ROLES.get(ct, "generic"), for the control types the elements use.
CUP_ROLES(ct) ==
  CASE ct = 50000 -> "button"
    [] ct = 50003 -> "combobox"
    [] ct = 50004 -> "textbox"
    [] ct = 50030 -> "document"
    [] OTHER -> "generic"

SeqIf(cond, s) == IF cond THEN s ELSE <<>>

\* Variant: a failed read of the toggle or expand-collapse state gives 0.
read_properties_zero_state(e) ==
  LET has_value == cached_value(e.IsValuePatternAvailable, FALSE)
  IN  [ name         |-> cached_value(e.Name, ""),
        ct           |-> cached_value(e.ControlType, 0),
        is_enabled   |-> cached_value(e.IsEnabled, TRUE),
        has_focus    |-> cached_value(e.HasKeyboardFocus, FALSE),
        is_offscreen |-> cached_value(e.IsOffscreen, FALSE),
        has_invoke   |-> cached_value(e.IsInvokePatternAvailable, FALSE),
        has_toggle   |-> cached_value(e.IsTogglePatternAvailable, FALSE),
        has_expand   |-> cached_value(e.IsExpandCollapsePatternAvailable, FALSE),
        has_value    |-> has_value,
        has_sel_item |-> cached_value(e.IsSelectionItemPatternAvailable, FALSE),
        has_scroll   |-> cached_value(e.IsScrollPatternAvailable, FALSE),
        has_range    |-> cached_value(e.IsRangeValuePatternAvailable, FALSE),
        toggle_state |-> cached_value(e.ToggleState, 0),
        expand_state |-> cached_value(e.ExpandCollapseState, 0),
        is_selected  |-> cached_value(e.IsSelected, FALSE),
        val_readonly |-> IF has_value
                         THEN cached_value(e.ValueIsReadOnly, FALSE) ELSE FALSE,
        val_str      |-> IF has_value
                         THEN cached_value(e.ValueValue, "") ELSE "" ]

\* The locals of build_cup_node after the property reads.
read_properties(e) ==
  LET has_value == cached_value(e.IsValuePatternAvailable, FALSE)
  IN  [ name         |-> cached_value(e.Name, ""),
        ct           |-> cached_value(e.ControlType, 0),
        is_enabled   |-> cached_value(e.IsEnabled, TRUE),
        has_focus    |-> cached_value(e.HasKeyboardFocus, FALSE),
        is_offscreen |-> cached_value(e.IsOffscreen, FALSE),
        has_invoke   |-> cached_value(e.IsInvokePatternAvailable, FALSE),
        has_toggle   |-> cached_value(e.IsTogglePatternAvailable, FALSE),
        has_expand   |-> cached_value(e.IsExpandCollapsePatternAvailable, FALSE),
        has_value    |-> has_value,
        has_sel_item |-> cached_value(e.IsSelectionItemPatternAvailable, FALSE),
        has_scroll   |-> cached_value(e.IsScrollPatternAvailable, FALSE),
        has_range    |-> cached_value(e.IsRangeValuePatternAvailable, FALSE),
        toggle_state |-> cached_value(e.ToggleState, -1),
        expand_state |-> cached_value(e.ExpandCollapseState, -1),
        is_selected  |-> cached_value(e.IsSelected, FALSE),
        val_readonly |-> IF has_value
                         THEN cached_value(e.ValueIsReadOnly, FALSE) ELSE FALSE,
        val_str      |-> IF has_value
                         THEN cached_value(e.ValueValue, "") ELSE "" ]

\* A pane (50033) with a name is a region.
node_role(c) ==
  IF c.ct = 50033 /\ c.name # "" THEN "region" ELSE CUP_ROLES(c.ct)

node_states(c, role) ==
     SeqIf(~ c.is_enabled, <<"disabled">>)
  \o SeqIf(c.has_focus, <<"focused">>)
  \o SeqIf(c.is_offscreen, <<"offscreen">>)
  \o SeqIf(c.has_toggle /\ c.toggle_state = 1, <<"checked">>)
  \o SeqIf(c.has_toggle /\ c.toggle_state = 2, <<"mixed">>)
  \o SeqIf(c.has_expand /\ c.expand_state = 0, <<"collapsed">>)
  \o SeqIf(c.has_expand /\ c.expand_state \in {1, 2}, <<"expanded">>)
  \o SeqIf(c.is_selected, <<"selected">>)
  \o SeqIf(c.has_value /\ c.val_readonly, <<"readonly">>)
  \o SeqIf(c.has_value /\ ~ c.val_readonly /\ role \in TEXT_INPUT_ROLES,
           <<"editable">>)

\* Variant: expand and collapse are offered on a leaf node too.
pattern_actions_leaf_expands(c, role) ==
     SeqIf(c.has_invoke, <<"click">>)
  \o SeqIf(c.has_toggle, <<"toggle">>)
  \o SeqIf(c.has_expand, <<"expand", "collapse">>)
  \o SeqIf(c.has_value /\ ~ c.val_readonly, <<"setvalue">>)
  \o SeqIf(c.has_value /\ ~ c.val_readonly /\ role \in TEXT_INPUT_ROLES,
           <<"type">>)
  \o SeqIf(c.has_sel_item, <<"select">>)
  \o SeqIf(c.has_scroll, <<"scroll">>)
  \o SeqIf(c.has_range, <<"increment", "decrement">>)

\* The actions derived from the supported patterns.
pattern_actions(c, role) ==
     SeqIf(c.has_invoke, <<"click">>)
  \o SeqIf(c.has_toggle, <<"toggle">>)
  \o SeqIf(c.has_expand /\ c.expand_state # 3, <<"expand", "collapse">>)
  \o SeqIf(c.has_value /\ ~ c.val_readonly, <<"setvalue">>)
  \o SeqIf(c.has_value /\ ~ c.val_readonly /\ role \in TEXT_INPUT_ROLES,
           <<"type">>)
  \o SeqIf(c.has_sel_item, <<"select">>)
  \o SeqIf(c.has_scroll, <<"scroll">>)
  \o SeqIf(c.has_range, <<"increment", "decrement">>)

\* Variant: focus is appended whenever the element is enabled.
node_actions_focus_always(c, role) ==
  pattern_actions(c, role) \o SeqIf(c.is_enabled, <<"focus">>)

\* The pattern actions, or focus alone for an enabled element without any.
node_actions(c, role) ==
  LET actions == pattern_actions(c, role)
  IN  IF actions = <<>> /\ c.is_enabled THEN <<"focus">> ELSE actions

build_cup_node(e, id) ==
  LET c == read_properties(e)
      role == node_role(c)
  IN  [ id |-> id, role |-> role, name |-> c.name, value |-> c.val_str,
        states |-> node_states(c, role), actions |-> node_actions(c, role) ]

\* ------------------------------------------------------------------------
\* Building one node from a native element
\* ------------------------------------------------------------------------
PatternProperties ==
  { "IsInvokePatternAvailable", "IsTogglePatternAvailable",
    "IsExpandCollapsePatternAvailable", "IsValuePatternAvailable",
    "IsSelectionItemPatternAvailable", "IsScrollPatternAvailable",
    "IsRangeValuePatternAvailable" }

BooleanProperties ==
  PatternProperties
    \cup { "IsEnabled", "HasKeyboardFocus", "IsOffscreen", "IsSelected",
           "ValueIsReadOnly" }

StateProperties == { "ToggleState", "ExpandCollapseState" }

StringProperties == { "Name", "ValueValue" }

Properties ==
  BooleanProperties \cup StateProperties \cup StringProperties
    \cup { "ControlType" }

\* A native element whose properties can all be read.
NativeElement(pats, en, fo, off, sel, ro, ts, es, ct) ==
  [ Name |-> Ok("N"), ControlType |-> Ok(ct), ValueValue |-> Ok("V"),
    IsEnabled |-> Ok(en), HasKeyboardFocus |-> Ok(fo), IsOffscreen |-> Ok(off),
    IsInvokePatternAvailable |-> Ok("IsInvokePatternAvailable" \in pats),
    IsTogglePatternAvailable |-> Ok("IsTogglePatternAvailable" \in pats),
    IsExpandCollapsePatternAvailable |->
      Ok("IsExpandCollapsePatternAvailable" \in pats),
    IsValuePatternAvailable |-> Ok("IsValuePatternAvailable" \in pats),
    IsSelectionItemPatternAvailable |->
      Ok("IsSelectionItemPatternAvailable" \in pats),
    IsScrollPatternAvailable |-> Ok("IsScrollPatternAvailable" \in pats),
    IsRangeValuePatternAvailable |-> Ok("IsRangeValuePatternAvailable" \in pats),
    ToggleState |-> Ok(ts), ExpandCollapseState |-> Ok(es),
    IsSelected |-> Ok(sel), ValueIsReadOnly |-> Ok(ro) ]

Filler(prop) ==
  IF prop \in StringProperties THEN ""
  ELSE IF prop \in BooleanProperties THEN FALSE
  ELSE 0

\* The element with the reads of the properties in failing made to fail.
WithUnreadable(e, failing) ==
  [ prop \in DOMAIN e |->
      IF prop \in failing THEN Unreadable(Filler(prop)) ELSE e[prop] ]

\* The sets of properties whose read fails: none, any single one, or all.
FailingReads == {{}} \cup { {prop} : prop \in Properties } \cup {Properties}

InitPruneIdle ==
  /\ tree = <<>>
  /\ detail = "standard"
  /\ out = <<>>
  /\ prev = <<>>
  /\ pc = "raw"

InitBuild ==
  /\ InitPruneIdle
  /\ InitSession
  /\ InitBuilder
  /\ InitWalk
  /\ InitLine
  /\ InitRouter

\* build_cup_node is called on an element: any combination of patterns and
\* property values when every read succeeds, and elements with no pattern
\* or with every pattern when some reads fail.
BuildNode ==
  /\ built = <<>>
  /\ \E pats \in SUBSET PatternProperties, en, fo, off, sel, ro \in BOOLEAN :
       \E ts \in 0..2, es \in 0..3, ct \in {50000, 50004} :
         \E failing \in FailingReads :
           /\ failing = {} \/ pats \in {{}, PatternProperties}
           /\ LET e == WithUnreadable(
                         NativeElement(pats, en, fo, off, sel, ro, ts, es, ct),
                         failing)
              IN  /\ element' = e
                  /\ built' = << build_cup_node(e, 0) >>
  /\ UNCHANGED <<pruneVars, sessionVars, walkVars, lineVars, routerVars>>

NextBuild == BuildNode

\* The claims' vocabulary, stated on the native element.
Readable(e) == \A prop \in DOMAIN e : e[prop].ok

Exposes(e, pattern) == e[pattern].ok /\ e[pattern].v

TextInputRole(role) == role \in {"textbox", "searchbox", "combobox", "document"}

\* The action list the patterns of e call for; settable says when the value
\* pattern contributes setvalue.
DerivedActions(e, role, settable) ==
     SeqIf(Exposes(e, "IsInvokePatternAvailable"), <<"click">>)
  \o SeqIf(Exposes(e, "IsTogglePatternAvailable"), <<"toggle">>)
  \o SeqIf(Exposes(e, "IsExpandCollapsePatternAvailable")
             /\ e.ExpandCollapseState.v # 3, <<"expand", "collapse">>)
  \o SeqIf(settable, <<"setvalue">>)
  \o SeqIf(settable /\ TextInputRole(role), <<"type">>)
  \o SeqIf(Exposes(e, "IsSelectionItemPatternAvailable"), <<"select">>)
  \o SeqIf(Exposes(e, "IsScrollPatternAvailable"), <<"scroll">>)
  \o SeqIf(Exposes(e, "IsRangeValuePatternAvailable"),
           <<"increment", "decrement">>)

\* The built actions are the expected list; an empty expected list leaves
\* room for the focus fallback.
ActionsAre(n, expected) ==
  IF expected = <<>> THEN n.actions \in {<<>>, <<"focus">>}
  ELSE n.actions = expected

\* C15 (as claimed): the actions are, in order, click if invoke; toggle if
\* toggle; expand, collapse if expand-collapse and the state is not leaf
\* (3); setvalue if the value pattern is supported, then type for a text
\* input role; select; scroll; increment, decrement.
C15_ActionDerivation ==
  (built # <<>> /\ Readable(element)) =>
    ActionsAre(built[1],
               DerivedActions(element, built[1].role,
                              Exposes(element, "IsValuePatternAvailable")))

\* C15 (amended): the same, with setvalue (and type) only if the value
\* pattern is supported and the value is not read-only.
C15_ActionDerivationWritable ==
  (built # <<>> /\ Readable(element)) =>
    ActionsAre(built[1],
               DerivedActions(element, built[1].role,
                              /\ Exposes(element, "IsValuePatternAvailable")
                              /\ ~ element.ValueIsReadOnly.v))

\* C15 witness: a textbox with every pattern, a writable value and a leaf
\* expand-collapse state.
C15_Witness ==
  /\ built # <<>>
  /\ Readable(element)
  /\ \A pattern \in PatternProperties : element[pattern].v
  /\ element.ExpandCollapseState.v = 3
  /\ built[1].actions = <<"click", "toggle", "setvalue", "type", "select",
                          "scroll", "increment", "decrement">>

\* C16: the actions are exactly [focus] if and only if the element is
\* enabled and no pattern-derived action was produced; focus never appears
\* next to another action; a disabled element without a pattern-derived
\* action has no actions.
C16_FocusFallback ==
  (built # <<>> /\ Readable(element)) =>
    LET n == built[1]
        derived ==
          DerivedActions(element, n.role,
                         /\ Exposes(element, "IsValuePatternAvailable")
                         /\ ~ element.ValueIsReadOnly.v)
    IN  /\ n.actions = <<"focus">> <=> (element.IsEnabled.v /\ derived = <<>>)
        /\ (\E i \in DOMAIN n.actions : n.actions[i] = "focus")
             => Len(n.actions) = 1
        /\ (~ element.IsEnabled.v /\ derived = <<>>) => n.actions = <<>>

\* C16 witness: an enabled element whose only pattern is a read-only value
\* got focus alone.
C16_Witness ==
  /\ built # <<>>
  /\ Readable(element)
  /\ element.IsEnabled.v
  /\ element.IsValuePatternAvailable.v
  /\ element.ValueIsReadOnly.v
  /\ built[1].actions = <<"focus">>

HasState(n, state) == \E i \in DOMAIN n.states : n.states[i] = state

\* C17 (as claimed): checked or mixed only with the toggle pattern,
\* expanded or collapsed only with the expand-collapse pattern, selected
\* only with the selection-item pattern, readonly or editable only with the
\* value pattern, whatever the cached property values are.
C17_PatternGatedStates ==
  built # <<>> =>
    LET n == built[1]
    IN  /\ (HasState(n, "checked") \/ HasState(n, "mixed"))
             => Exposes(element, "IsTogglePatternAvailable")
        /\ (HasState(n, "expanded") \/ HasState(n, "collapsed"))
             => Exposes(element, "IsExpandCollapsePatternAvailable")
        /\ HasState(n, "selected")
             => Exposes(element, "IsSelectionItemPatternAvailable")
        /\ (HasState(n, "readonly") \/ HasState(n, "editable"))
             => Exposes(element, "IsValuePatternAvailable")

\* The element with every unreadable property replaced by a default.
Defaulted(e, enabled_default) ==
  [ prop \in DOMAIN e |->
      IF e[prop].ok THEN e[prop]
      ELSE Ok(IF prop = "IsEnabled" THEN enabled_default
              ELSE IF prop \in BooleanProperties THEN FALSE
              ELSE IF prop \in StringProperties THEN ""
              ELSE IF prop \in StateProperties THEN -1
              ELSE 0) ]

SpecBuild == InitBuild /\ [][NextBuild]_vars

\* ------------------------------------------------------------------------
\* bench_a11y_tree_fast.py: the three walks and the capture loop of main
\*
\* A native element of a window is [props, children, breakAt]: breakAt = 0
\* when every child access succeeds, and k > 0 when getting at child k
\* fails (the children call itself for k = 1).  A walk returns what it
\* built together with the next value of the shared id counter.
\* ------------------------------------------------------------------------
MaxDepth == 2

Modes == {"cached", "legacy", "flat"}

\* The built node of an element, with its children key.
with_children(n, kids) ==
  [ id |-> n.id, role |-> n.role, name |-> n.name, value |-> n.value,
    states |-> n.states, actions |-> n.actions, children |-> kids ]

RECURSIVE walk_cached_tree(_, _, _, _), walk_cached_children(_, _, _, _, _, _)

\* Variant: the cap is exclusive.
walk_cached_tree_exclusive(el, depth, max_depth, next) ==
  IF depth >= max_depth THEN [node |-> <<>>, next |-> next]
  ELSE LET kids == walk_cached_children(el.children, 1, el.breakAt,
                                        depth + 1, max_depth, next + 1)
       IN  [node |-> << with_children(build_cup_node(el.props, next),
                                      kids.nodes) >>,
            next |-> kids.next]

\* node is <<>> for None and <<node>> otherwise.
walk_cached_tree(el, depth, max_depth, next) ==
  IF depth > max_depth THEN [node |-> <<>>, next |-> next]
  ELSE LET kids == IF depth < max_depth
                   THEN walk_cached_children(el.children, 1, el.breakAt,
                                             depth + 1, max_depth, next + 1)
                   ELSE [nodes |-> <<>>, next |-> next + 1]
       IN  [node |-> << with_children(build_cup_node(el.props, next),
                                      kids.nodes) >>,
            next |-> kids.next]

\* The loop over the cached children: an exception ends it and keeps the
\* children appended so far.
walk_cached_children(children, i, breakAt, depth, max_depth, next) ==
  IF i > Len(children) \/ i = breakAt THEN [nodes |-> <<>>, next |-> next]
  ELSE LET r == walk_cached_tree(children[i], depth, max_depth, next)
           rest == walk_cached_children(children, i + 1, breakAt, depth,
                                        max_depth, r.next)
       IN  [nodes |-> r.node \o rest.nodes, next |-> rest.next]

RECURSIVE walk_tree(_, _, _, _), walk_siblings(_, _, _, _, _, _)
walk_tree(el, depth, max_depth, next) ==
  IF depth > max_depth THEN [node |-> <<>>, next |-> next]
  ELSE LET kids == IF depth < max_depth
                   THEN walk_siblings(el.children, 1, el.breakAt,
                                      depth + 1, max_depth, next + 1)
                   ELSE [nodes |-> <<>>, next |-> next + 1]
       IN  [node |-> << with_children(build_cup_node(el.props, next),
                                      kids.nodes) >>,
            next |-> kids.next]

\* GetFirstChild / GetNextSibling: a COM error or an invalid element ends
\* the loop.
walk_siblings(children, i, breakAt, depth, max_depth, next) ==
  IF i > Len(children) \/ i = breakAt THEN [nodes |-> <<>>, next |-> next]
  ELSE LET r == walk_tree(children[i], depth, max_depth, next)
           rest == walk_siblings(children, i + 1, breakAt, depth,
                                 max_depth, r.next)
       IN  [nodes |-> r.node \o rest.nodes, next |-> rest.next]

\* FindAllBuildCache on one parent: all its children, or none when the
\* call fails.
find_all(parent) == IF parent.breakAt # 0 THEN <<>> ELSE parent.children

\* One level of the flat snapshot: the nodes and elements of the children
\* of every parent of the current level.
RECURSIVE flat_level(_, _, _)
flat_level(current_level, i, next) ==
  IF i > Len(current_level)
  THEN [nodes |-> <<>>, elements |-> <<>>, next |-> next]
  ELSE LET arr == find_all(current_level[i])
           rest == flat_level(current_level, i + 1, next + Len(arr))
       IN  [nodes |-> [ k \in 1..Len(arr) |->
                          with_children(
                            build_cup_node(arr[k].props, next + k - 1), <<>>) ]
                      \o rest.nodes,
            elements |-> arr \o rest.elements,
            next |-> rest.next]

RECURSIVE flat_levels(_, _, _, _)
flat_levels(current_level, depth, max_depth, next) ==
  IF depth > max_depth \/ current_level = <<>>
  THEN [nodes |-> <<>>, next |-> next]
  ELSE LET level == flat_level(current_level, 1, next)
           rest == flat_levels(level.elements, depth + 1, max_depth, level.next)
       IN  [nodes |-> level.nodes \o rest.nodes, next |-> rest.next]

flat_snapshot(root, max_depth, next) ==
  LET rest == flat_levels(<<root>>, 1, max_depth, next + 1)
  IN  [nodes |-> << with_children(build_cup_node(root.props, next), <<>>) >>
                 \o rest.nodes,
       next |-> rest.next]

\* The windows whose root element resolved (a COM error is passed over).
resolve_roots(windows) == SelectSeq(windows, LAMBDA w : w.resolves)

\* What one mode does with one root.
walk_root(mode, root, max_depth, next) ==
  IF mode = "flat"
  THEN flat_snapshot(root, max_depth, next)
  ELSE LET r == IF mode = "legacy"
                THEN walk_tree(root, 0, max_depth, next)
                ELSE walk_cached_tree(root, 0, max_depth, next)
       IN  [nodes |-> r.node, next |-> r.next]

RECURSIVE walk_roots(_, _, _, _, _)

\* Variant: every window gets a counter of its own.
walk_roots_own_counter(mode, roots, i, max_depth, next) ==
  IF i > Len(roots) THEN [nodes |-> <<>>, next |-> next]
  ELSE LET r == walk_root(mode, roots[i].root, max_depth, 0)
           rest == walk_roots(mode, roots, i + 1, max_depth, next + r.next)
       IN  [nodes |-> r.nodes \o rest.nodes, next |-> rest.next]

\* main, step 3: the roots are walked in order with one id counter.
walk_roots(mode, roots, i, max_depth, next) ==
  IF i > Len(roots) THEN [nodes |-> <<>>, next |-> next]
  ELSE LET r == walk_root(mode, roots[i].root, max_depth, next)
           rest == walk_roots(mode, roots, i + 1, max_depth, r.next)
       IN  [nodes |-> r.nodes \o rest.nodes, next |-> rest.next]

\* The statistics of a capture: stats["nodes"], stats["max_depth"] and
\* stats["roles"], a count per control-type name (the name is one-to-one
\* with the control type, which stands for it here).
new_stats == [nodes |-> 0, max_depth |-> 0, roles |-> EmptyBag]

\* build_cup_node's two updates of the statistics.
count_node(props, stats) ==
  [stats EXCEPT !.nodes = @ + 1,
                !.roles = @ (+) SetToBag({cached_value(props.ControlType, 0)})]

max(a, b) == IF a >= b THEN a ELSE b

RECURSIVE stats_walk_cached_tree(_, _, _, _),
          stats_walk_cached_children(_, _, _, _, _, _)
stats_walk_cached_tree(el, depth, max_depth, stats) ==
  IF depth > max_depth THEN stats
  ELSE LET counted == [count_node(el.props, stats)
                       EXCEPT !.max_depth = max(@, depth)]
       IN  IF depth < max_depth
           THEN stats_walk_cached_children(el.children, 1, el.breakAt,
                                           depth + 1, max_depth, counted)
           ELSE counted

stats_walk_cached_children(children, i, breakAt, depth, max_depth, stats) ==
  IF i > Len(children) \/ i = breakAt THEN stats
  ELSE stats_walk_cached_children(
         children, i + 1, breakAt, depth, max_depth,
         stats_walk_cached_tree(children[i], depth, max_depth, stats))

RECURSIVE stats_walk_tree(_, _, _, _), stats_walk_siblings(_, _, _, _, _, _)
stats_walk_tree(el, depth, max_depth, stats) ==
  IF depth > max_depth THEN stats
  ELSE LET counted == [count_node(el.props, stats)
                       EXCEPT !.max_depth = max(@, depth)]
       IN  IF depth < max_depth
           THEN stats_walk_siblings(el.children, 1, el.breakAt,
                                    depth + 1, max_depth, counted)
           ELSE counted

stats_walk_siblings(children, i, breakAt, depth, max_depth, stats) ==
  IF i > Len(children) \/ i = breakAt THEN stats
  ELSE stats_walk_siblings(
         children, i + 1, breakAt, depth, max_depth,
         stats_walk_tree(children[i], depth, max_depth, stats))

\* The nodes built from one FindAllBuildCache result.
RECURSIVE stats_count_each(_, _, _)
stats_count_each(arr, k, stats) ==
  IF k > Len(arr) THEN stats
  ELSE stats_count_each(arr, k + 1, count_node(arr[k].props, stats))

\* One level of the flat snapshot.
RECURSIVE stats_flat_level(_, _, _)
stats_flat_level(current_level, i, stats) ==
  IF i > Len(current_level) THEN stats
  ELSE stats_flat_level(current_level, i + 1,
                        stats_count_each(find_all(current_level[i]), 1, stats))

\* The level loop of flat_snapshot: stats["max_depth"] = depth is the
\* first statement of every pass, before the children are looked up.
RECURSIVE stats_flat_levels(_, _, _, _)
stats_flat_levels(current_level, depth, max_depth, stats) ==
  IF depth > max_depth \/ current_level = <<>> THEN stats
  ELSE LET level == flat_level(current_level, 1, 0)
       IN  stats_flat_levels(
             level.elements, depth + 1, max_depth,
             stats_flat_level(current_level, 1,
                              [stats EXCEPT !.max_depth = depth]))

stats_flat_snapshot(root, max_depth, stats) ==
  stats_flat_levels(<<root>>, 1, max_depth, count_node(root.props, stats))

\* main, tree modes: one stats dict for all the roots.
RECURSIVE stats_tree_roots(_, _, _, _, _)
stats_tree_roots(mode, roots, i, max_depth, stats) ==
  IF i > Len(roots) THEN stats
  ELSE stats_tree_roots(
         mode, roots, i + 1, max_depth,
         IF mode = "legacy"
         THEN stats_walk_tree(roots[i].root, 0, max_depth, stats)
         ELSE stats_walk_cached_tree(roots[i].root, 0, max_depth, stats))

\* main, flat mode: a fresh stats dict per root, added up into
\* total_nodes, max_depth_seen and all_roles.
RECURSIVE stats_flat_roots(_, _, _, _)
stats_flat_roots(roots, i, max_depth, total) ==
  IF i > Len(roots) THEN total
  ELSE LET stats == stats_flat_snapshot(roots[i].root, max_depth, new_stats)
       IN  stats_flat_roots(
             roots, i + 1, max_depth,
             [nodes |-> total.nodes + stats.nodes,
              max_depth |-> max(total.max_depth, stats.max_depth),
              roles |-> total.roles (+) stats.roles])

\* total_nodes, max_depth_seen and all_roles after main's walk step.
capture_stats(mode, roots, max_depth) ==
  IF mode = "flat"
  THEN stats_flat_roots(roots, 1, max_depth, new_stats)
  ELSE stats_tree_roots(mode, roots, 1, max_depth, new_stats)

\* --depth N, 0 meaning unlimited.
max_depth_of(depth) == IF depth > 0 THEN depth ELSE 999

\* The result of main's resolve-and-walk step.  raised tells whether an
\* exception reached the caller.
capture(mode, windows, depth) ==
  LET r == walk_roots(mode, resolve_roots(windows), 1, max_depth_of(depth), 0)
  IN  [tree |-> r.nodes, next |-> r.next, raised |-> FALSE,
       stats |-> capture_stats(mode, resolve_roots(windows),
                               max_depth_of(depth))]

\* ------------------------------------------------------------------------
\* Capturing a list of windows
\* ------------------------------------------------------------------------
\* The properties of native element number j: a plain enabled control
\* whose name is its number, a button (50000) when the number is odd and
\* an edit box (50004) when it is even.
PlainProperties(j) ==
  [ NativeElement({}, TRUE, FALSE, FALSE, FALSE, FALSE, 0, 0,
                  IF j % 2 = 1 THEN 50000 ELSE 50004)
      EXCEPT !.Name = Ok(ToString(j)) ]

ChildCount(p, n, j) == Cardinality({ k \in 1..n : p[k] = j })

\* The native elements under element i (0: the window roots) of the forest
\* with shape p and child-access failures b.
RECURSIVE NativeKids(_, _, _, _, _)
NativeKids(p, b, n, i, j) ==
  IF j > n THEN <<>>
  ELSE (IF p[j] = i
        THEN << [props |-> PlainProperties(j),
                 children |-> NativeKids(p, b, n, j, j + 1),
                 breakAt |-> b[j]] >>
        ELSE <<>>)
       \o NativeKids(p, b, n, i, j + 1)

\* The window list: one window per root, with the outcome of resolving
\* its handle to an element.
NativeWindows(p, b, res, n) ==
  LET roots == NativeKids(p, b, n, 0, 1)
  IN  [ w \in 1..Len(roots) |-> [resolves |-> res[w], root |-> roots[w]] ]

InitCapture ==
  /\ InitPruneIdle
  /\ InitSession
  /\ InitBuilder
  /\ InitWalk
  /\ InitLine
  /\ InitRouter

\* main resolves and walks a window list in one of the three modes.
CaptureTree ==
  /\ captured = <<>>
  /\ \E n \in 0..MaxNodes, mode \in Modes, depth \in 0..MaxDepth :
       \E p \in ParentVecs(n), b \in [1..n -> 0..MaxNodes] :
         /\ \A j \in 1..n : b[j] <= ChildCount(p, n, j)
         /\ \E res \in [1..ChildCount(p, n, 0) -> BOOLEAN] :
              LET windows == NativeWindows(p, b, res, n)
              IN  /\ request' = [mode |-> mode, depth |-> depth,
                                 max_depth |-> max_depth_of(depth),
                                 windows |-> windows]
                  /\ captured' = << capture(mode, windows, depth) >>
  /\ UNCHANGED <<pruneVars, sessionVars, builderVars, lineVars, routerVars>>

NextCapture == CaptureTree

\* Preorder list of the native elements of a forest with their depth
\* below the window root.
RECURSIVE NativeFrom(_, _, _)
NativeFrom(elems, i, depth) ==
  IF i > Len(elems) THEN <<>>
  ELSE << [name |-> elems[i].props.Name.v, depth |-> depth,
           breakAt |-> elems[i].breakAt] >>
       \o NativeFrom(elems[i].children, 1, depth + 1)
       \o NativeFrom(elems, i + 1, depth)

NativeFlat(windows) ==
  NativeFrom([ w \in DOMAIN windows |-> windows[w].root ], 1, 0)

NativeDepth(NF, name) == NF[CHOOSE i \in DOMAIN NF : NF[i].name = name].depth

\* Every window resolves and every child access succeeds.
FailureFree(windows, NF) ==
  /\ \A w \in DOMAIN windows : windows[w].resolves
  /\ \A i \in DOMAIN NF : NF[i].breakAt = 0

\* C13: in a capture by the cached or the legacy tree walk, across all
\* windows, every id is assigned exactly once, every parent's id is
\* smaller than its child's, and the ids increase along the preorder of
\* the returned tree.
C13_IdsUniquePreorder ==
  (captured # <<>> /\ request.mode # "flat") =>
    LET E == Flat(captured[1].tree)
    IN  /\ \A i \in DOMAIN E : IdCount(E, E[i].n.id) = 1
        /\ \A i \in DOMAIN E : E[i].par # -1 => E[i].par < E[i].n.id
        /\ \A i, j \in DOMAIN E : i < j => E[i].n.id < E[j].n.id

\* C13 witness: a legacy walk of two windows, the first with a child.
C13_Witness ==
  /\ captured # <<>>
  /\ request.mode = "legacy"
  /\ Len(captured[1].tree) = 2
  /\ captured[1].tree[1].children # <<>>
  /\ captured[1].tree[2].id = 2

\* C14: in every mode no emitted node lies deeper than max_depth below its
\* window root; a node at depth max_depth is emitted, without children
\* (with nothing failing, the emitted nodes are exactly the elements of
\* depth <= max_depth); and the ids consumed are those of the emitted
\* nodes.
C14_InclusiveDepthCap ==
  captured # <<>> =>
    LET E == Flat(captured[1].tree)
        NF == NativeFlat(request.windows)
    IN  /\ \A i \in DOMAIN E :
             /\ NativeDepth(NF, E[i].n.name) <= request.max_depth
             /\ request.mode # "flat"
                  => E[i].depth = NativeDepth(NF, E[i].n.name)
             /\ NativeDepth(NF, E[i].n.name) = request.max_depth
                  => E[i].kids = 0
        /\ FailureFree(request.windows, NF) =>
             { E[i].n.name : i \in DOMAIN E }
               = { NF[i].name : i \in { k \in DOMAIN NF :
                                          NF[k].depth <= request.max_depth } }
        /\ captured[1].next = Len(E)

\* C14 witness: a cached walk with max_depth = 1 emitted a node of depth 1
\* and left out its child.
C14_Witness ==
  /\ captured # <<>>
  /\ request.mode = "cached"
  /\ request.max_depth = 1
  /\ LET NF == NativeFlat(request.windows)
     IN  /\ FailureFree(request.windows, NF)
         /\ \E i \in DOMAIN NF : NF[i].depth = 2
  /\ captured[1].next = 2

\* C19 (as claimed): when the root element of a requested window cannot be
\* resolved, the capture reports the failure to its caller.
C19_RootFailureSurfaced ==
  captured # <<>> =>
    ((\E w \in DOMAIN request.windows : ~ request.windows[w].resolves)
       => captured[1].raised)

\* The depth of the deepest emitted node, 0 when nothing was emitted.
DeepestEmitted(E, NF) ==
  LET depths == { NativeDepth(NF, E[i].n.name) : i \in DOMAIN E }
  IN  IF depths = {} THEN 0
      ELSE CHOOSE d \in depths : \A e \in depths : e <= d

StatsDescribe(c, req) ==
  LET E == Flat(c.tree)
      NF == NativeFlat(req.windows)
  IN  /\ c.stats.nodes = Len(E)
      /\ BagCardinality(c.stats.roles) = c.stats.nodes
      /\ c.stats.max_depth = DeepestEmitted(E, NF)
      /\ c.stats.max_depth <= req.max_depth

\* C30 (as claimed): in every capture mode, stats.nodes is the number of
\* nodes emitted, the role counts of stats.roles sum to stats.nodes, and
\* stats.max_depth is the depth of the deepest emitted node (0 for a
\* window whose root has no children) and never exceeds the requested
\* max_depth.
C30_CaptureStats ==
  captured # <<>> => StatsDescribe(captured[1], request)

\* The same statement for the two tree walks only.
C30_TreeWalkStats ==
  (captured # <<>> /\ request.mode # "flat")
    => StatsDescribe(captured[1], request)

\* In the flat mode the node count, the role counts and the cap hold, and
\* stats.max_depth is never below the depth of the deepest emitted node.
C30_FlatStats ==
  (captured # <<>> /\ request.mode = "flat") =>
    LET E == Flat(captured[1].tree)
        NF == NativeFlat(request.windows)
    IN  /\ captured[1].stats.nodes = Len(E)
        /\ BagCardinality(captured[1].stats.roles) = captured[1].stats.nodes
        /\ captured[1].stats.max_depth >= DeepestEmitted(E, NF)
        /\ captured[1].stats.max_depth <= request.max_depth

SpecCapture == InitCapture /\ [][NextCapture]_vars

\* ------------------------------------------------------------------------
\* cup/format.py: the compact line of a node
\*
\* A text is a sequence of pieces: single characters, and whole words where
\* the code never looks inside (a role, a state, an action, a number).  The
\* nodes given to the serializer carry name and value as texts, bounds as
\* <<>> or <<[x, y, w, h]>> and attributes as a record (<<>> for none).
\* ------------------------------------------------------------------------
RECURSIVE join(_, _)
join(parts, sep) ==
  IF parts = <<>> THEN <<>>
  ELSE IF Len(parts) = 1 THEN parts[1]
  ELSE parts[1] \o sep \o join(Tail(parts), sep)

\* Variant: a text of exactly limit characters gets the suffix too.
truncate_at_limit(text, limit) ==
  IF Len(text) >= limit
  THEN SubSeq(text, 1, limit) \o <<".", ".", ".">>
  ELSE text

\* text[:limit] + ("..." if len(text) > limit else "")
truncate(text, limit) ==
  IF Len(text) > limit
  THEN SubSeq(text, 1, limit) \o <<".", ".", ".">>
  ELSE text

\* str.replace for a single character old: every occurrence becomes new.
\* The text is handled by halves to keep the nesting shallow.
RECURSIVE replace(_, _, _)
replace(text, old, new) ==
  IF text = <<>> THEN <<>>
  ELSE IF Len(text) = 1 THEN (IF text[1] = old THEN new ELSE text)
  ELSE LET half == Len(text) \div 2
       IN  replace(SubSeq(text, 1, half), old, new)
             \o replace(SubSeq(text, half + 1, Len(text)), old, new)

\* .replace('"', '\\"').replace("\n", " ")
escape_quotes(text) ==
  replace(replace(text, "\"", <<"\\", "\"">>), "\n", <<" ">>)

\* .replace("\\", "\\\\") before the two replacements above.
escape_name(text) ==
  replace(replace(replace(text, "\\", <<"\\", "\\">>),
                  "\"", <<"\\", "\"">>),
          "\n", <<" ">>)

quoted(text) == <<"\"">> \o text \o <<"\"">>

words(list) == [ i \in DOMAIN list |-> << list[i] >> ]

id_part(node) == <<"[", "e", ToString(node.id), "]">>

name_part(node) == quoted(escape_name(truncate(node.name, 80)))

bounds_part(b) ==
  <<"@", ToString(b.x), ",", ToString(b.y), " ",
    ToString(b.w), "x", ToString(b.h)>>

states_part(states) == <<"{">> \o join(words(states), <<",">>) \o <<"}">>

actions_part(actions) == <<"[">> \o join(words(actions), <<",">>) \o <<"]">>

VALUE_ROLES == {"textbox", "searchbox", "combobox", "spinbutton", "slider"}

value_part(node) ==
  <<"val=">> \o quoted(escape_quotes(truncate(node.value, 120)))

\* attrs.get(key, ""), rendered.
attr_text(attrs, key) ==
  IF key \in DOMAIN attrs THEN << ToString(attrs[key]) >> ELSE <<>>

attr_parts(attrs) ==
     SeqIf("level" \in DOMAIN attrs, << <<"L", ToString(attrs.level)>> >>)
  \o SeqIf("placeholder" \in DOMAIN attrs,
           << <<"ph=">>
              \o quoted(escape_quotes(SubSeq(attrs.placeholder, 1,
                          IF Len(attrs.placeholder) < 30
                          THEN Len(attrs.placeholder) ELSE 30))) >>)
  \o SeqIf("orientation" \in DOMAIN attrs,
           << SubSeq(attrs.orientation, 1,
                     IF attrs.orientation = <<>> THEN 0 ELSE 1) >>)
  \o SeqIf("valueMin" \in DOMAIN attrs \/ "valueMax" \in DOMAIN attrs,
           << <<"range=">> \o attr_text(attrs, "valueMin") \o <<".", ".">>
              \o attr_text(attrs, "valueMax") >>)

attributes_part(attrs) == <<"(">> \o join(attr_parts(attrs), <<" ">>) \o <<")">>

without_focus(actions) == SelectSeq(actions, LAMBDA a : a # "focus")

\* Variant: focus is rendered like any other action.
format_line_keeps_focus(node) ==
  join(   << id_part(node), << node.role >> >>
       \o SeqIf(node.name # <<>>, << name_part(node) >>)
       \o SeqIf(node.bounds # <<>>, << bounds_part(node.bounds[1]) >>)
       \o SeqIf(node.states # <<>>, << states_part(node.states) >>)
       \o SeqIf(node.actions # <<>>, << actions_part(node.actions) >>)
       \o SeqIf(node.value # <<>> /\ node.role \in VALUE_ROLES,
                << value_part(node) >>)
       \o SeqIf(DOMAIN node.attributes # {}
                  /\ attr_parts(node.attributes) # <<>>,
                << attributes_part(node.attributes) >>),
       <<" ">>)

\* _format_line: the parts that apply, joined by one space.
format_line(node) ==
  LET actions == without_focus(node.actions)
  IN  join(   << id_part(node), << node.role >> >>
           \o SeqIf(node.name # <<>>, << name_part(node) >>)
           \o SeqIf(node.bounds # <<>>, << bounds_part(node.bounds[1]) >>)
           \o SeqIf(node.states # <<>>, << states_part(node.states) >>)
           \o SeqIf(actions # <<>>, << actions_part(actions) >>)
           \o SeqIf(node.value # <<>> /\ node.role \in VALUE_ROLES,
                    << value_part(node) >>)
           \o SeqIf(DOMAIN node.attributes # {}
                      /\ attr_parts(node.attributes) # <<>>,
                    << attributes_part(node.attributes) >>),
           <<" ">>)

\* "  " * depth
indent(depth) == [ i \in 1..(2 * depth) |-> " " ]

\* _emit_compact: the line of the node, then the lines of its children one
\* level deeper.
RECURSIVE emit_compact(_, _), emit_each(_, _, _)
emit_compact(node, depth) ==
  << indent(depth) \o format_line(node) >>
    \o emit_each(node.children, 1, depth + 1)

emit_each(nodes, i, depth) ==
  IF i > Len(nodes) THEN <<>>
  ELSE emit_compact(nodes[i], depth) \o emit_each(nodes, i + 1, depth)

\* ------------------------------------------------------------------------
\* Emitting the lines of an already pruned tree
\* ------------------------------------------------------------------------
\* The plain nodes of a tree.
LineKinds ==
  { [role |-> "button", name |-> <<"B">>, bounds |-> <<>>, states |-> <<>>,
     actions |-> <<"click", "focus">>, value |-> <<>>, attributes |-> <<>>],
    [role |-> "text", name |-> <<"T">>, bounds |-> <<>>, states |-> <<>>,
     actions |-> <<>>, value |-> <<>>, attributes |-> <<>>] }

LineNames == { <<>>, <<"A">> }

LineBounds == { <<>>, << [x |-> 1, y |-> 2, w |-> 3, h |-> 4] >> }

LineStates == { <<>>, <<"focused", "disabled">> }

LineActions == { <<>>, <<"focus">>, <<"click", "focus">> }

LineRoleValues ==
  { [role |-> "button", value |-> <<>>],
    [role |-> "button", value |-> <<"v">>],
    [role |-> "textbox", value |-> <<"v">>] }

LineAttributes ==
  { <<>>, [other |-> 1], [level |-> 2, orientation |-> <<"h", "o", "r">>] }

\* The forest with shape p whose node j has the fields k[j].
RECURSIVE LineKids(_, _, _, _, _)
LineKids(p, k, n, i, j) ==
  IF j > n THEN <<>>
  ELSE (IF p[j] = i
        THEN << [id |-> j - 1, role |-> k[j].role, name |-> k[j].name,
                 bounds |-> k[j].bounds, states |-> k[j].states,
                 actions |-> k[j].actions, value |-> k[j].value,
                 attributes |-> k[j].attributes,
                 children |-> LineKids(p, k, n, j, j + 1)] >>
        ELSE <<>>)
       \o LineKids(p, k, n, i, j + 1)

InitEmit ==
  /\ InitPruneIdle
  /\ InitSession
  /\ InitBuilder
  /\ InitWalk
  /\ InitLine
  /\ InitRouter

\* serialize_compact emits the roots of a pruned tree at depth 0.  The last
\* node of the tree takes any combination of fields, the others are plain.
EmitCompact ==
  /\ lines = <<>>
  /\ \E n \in 1..MaxNodes :
       \E p \in ParentVecs(n), plain \in [1..(n - 1) -> LineKinds] :
         \E name \in LineNames, bounds \in LineBounds, states \in LineStates :
           \E actions \in LineActions, rv \in LineRoleValues,
              attributes \in LineAttributes :
             LET last == [role |-> rv.role, name |-> name, bounds |-> bounds,
                          states |-> states, actions |-> actions,
                          value |-> rv.value, attributes |-> attributes]
                 k == [ j \in 1..n |-> IF j = n THEN last ELSE plain[j] ]
                 pruned == LineKids(p, k, n, 0, 1)
             IN  /\ shown' = pruned
                 /\ lines' = emit_each(pruned, 1, 0)
  /\ UNCHANGED <<pruneVars, sessionVars, builderVars, walkVars, routerVars>>

NextEmit == EmitCompact

\* The nodes of a forest in preorder, each with its depth.
RECURSIVE LineFlat(_, _, _)
LineFlat(nodes, i, depth) ==
  IF i > Len(nodes) THEN <<>>
  ELSE << [node |-> nodes[i], depth |-> depth] >>
       \o LineFlat(nodes[i].children, 1, depth + 1)
       \o LineFlat(nodes, i + 1, depth)

RECURSIVE Flatten(_)
Flatten(texts) ==
  IF texts = <<>> THEN <<>> ELSE Head(texts) \o Flatten(Tail(texts))

\* The fields one after the other with exactly one space between two.
SingleSpaced(fields) ==
  IF fields = <<>> THEN <<>>
  ELSE Head(fields)
       \o Flatten([ i \in 1..(Len(fields) - 1) |-> <<" ">> \o fields[i + 1] ])

NotFocus(actions) ==
  LET keep == { i \in DOMAIN actions : actions[i] # "focus" }
      Nth(S, m) == CHOOSE i \in S : Cardinality({ j \in S : j < i }) = m - 1
  IN  [ m \in 1..Cardinality(keep) |-> actions[Nth(keep, m)] ]

\* The fields of a node in the order of the grammar.  Name, bounds and
\* states appear when the node has them, the actions when one other than
\* focus is left; val= and the attributes appear as told.
Fields(nd, with_value, with_attributes) ==
     << id_part(nd), << nd.role >> >>
  \o SeqIf(nd.name # <<>>, << name_part(nd) >>)
  \o SeqIf(nd.bounds # <<>>, << bounds_part(nd.bounds[1]) >>)
  \o SeqIf(nd.states # <<>>, << states_part(nd.states) >>)
  \o SeqIf(NotFocus(nd.actions) # <<>>,
           << <<"[">> \o join(words(NotFocus(nd.actions)), <<",">>) \o <<"]">> >>)
  \o SeqIf(with_value, << value_part(nd) >>)
  \o SeqIf(with_attributes, << attributes_part(nd.attributes) >>)

\* C20: every line is 2 * depth spaces followed by the fields [id], role,
\* quoted name, @x,y wxh, {states}, [actions], val=..., (attributes) in
\* this order with single spaces between them; a field the node lacks is
\* left out; focus is not rendered and [actions] is left out when focus was
\* the only action.
C20_LineGrammar ==
  lines # <<>> =>
    LET L == LineFlat(shown, 1, 0)
    IN  /\ Len(lines) = Len(L)
        /\ \A m \in DOMAIN L :
             LET nd == L[m].node
                 d == L[m].depth
                 line == lines[m]
             IN  /\ Len(line) > 2 * d
                 /\ \A i \in 1..(2 * d) : line[i] = " "
                 /\ line[2 * d + 1] = "["
                 /\ \A i \in DOMAIN line : line[i] # "focus"
                 /\ \E with_value, with_attributes \in BOOLEAN :
                      /\ with_value => nd.value # <<>>
                      /\ with_attributes => DOMAIN nd.attributes # {}
                      /\ SubSeq(line, 2 * d + 1, Len(line))
                           = SingleSpaced(Fields(nd, with_value,
                                                 with_attributes))

\* C20 witness: the line of a node of depth 2 that has every field.
C20_Witness ==
  /\ Len(lines) = 3
  /\ lines[3] = <<" ", " ", " ", " ", "[", "e", "2", "]", " ", "textbox", " ",
                  "\"", "A", "\"", " ", "@", "1", ",", "2", " ", "3", "x", "4",
                  " ", "{", "focused", ",", "disabled", "}", " ",
                  "[", "click", "]", " ", "val=", "\"", "v", "\"", " ",
                  "(", "L", "2", " ", "h", ")">>

SpecEmit == InitEmit /\ [][NextEmit]_vars

\* ------------------------------------------------------------------------
\* Names and values of any length and content in a compact line
\* ------------------------------------------------------------------------
MaxPattern == 2

TextAlphabet == {"a", "\\", "\"", "\n"}

\* Lengths around the two limits of _format_line.
TextLengths == {1, 2, 3, 79, 80, 81, 82, 119, 120, 121, 122}

\* The text of len characters that repeats the pattern pat.
PatternText(len, pat) == [ i \in 1..len |-> pat[((i - 1) % Len(pat)) + 1] ]

LineNode(role, name, value) ==
  [id |-> 0, role |-> role, name |-> name, bounds |-> <<>>, states |-> <<>>,
   actions |-> <<>>, value |-> value, attributes |-> <<>>, children |-> <<>>]

\* A node with a name and no value is serialized.
FormatName ==
  /\ lines = <<>>
  /\ \E len \in TextLengths, k \in 1..MaxPattern :
       \E pat \in [1..k -> TextAlphabet] :
         LET node == LineNode("button", PatternText(len, pat), <<>>)
         IN  /\ shown' = << node >>
             /\ lines' = emit_each(<< node >>, 1, 0)
  /\ UNCHANGED <<pruneVars, sessionVars, builderVars, walkVars, routerVars>>

\* A text input with a value and no name is serialized.
FormatValue ==
  /\ lines = <<>>
  /\ \E len \in TextLengths, k \in 1..MaxPattern :
       \E pat \in [1..k -> TextAlphabet] :
         LET node == LineNode("textbox", <<>>, PatternText(len, pat))
         IN  /\ shown' = << node >>
             /\ lines' = emit_each(<< node >>, 1, 0)
  /\ UNCHANGED <<pruneVars, sessionVars, builderVars, walkVars, routerVars>>

NextText == FormatName \/ FormatValue

\* The line of the one node shown, and what stands between the quotes of
\* its name and of its value.
NameShown == lines # <<>> /\ shown[1].name # <<>>

ValueShown == lines # <<>> /\ shown[1].value # <<>>

RenderedName == SubSeq(lines[1], 9, Len(lines[1]) - 1)

RenderedValue == SubSeq(lines[1], 10, Len(lines[1]) - 1)

NameFramed ==
  /\ Len(lines[1]) >= 9
  /\ SubSeq(lines[1], 1, 8) = <<"[", "e", "0", "]", " ", "button", " ", "\"">>
  /\ lines[1][Len(lines[1])] = "\""

ValueFramed ==
  /\ Len(lines[1]) >= 10
  /\ SubSeq(lines[1], 1, 9)
       = <<"[", "e", "0", "]", " ", "textbox", " ", "val=", "\"">>
  /\ lines[1][Len(lines[1])] = "\""

\* The first limit characters of a text, with "..." when it is longer.
Shortened(text, limit) ==
  IF Len(text) > limit
  THEN [ i \in 1..(limit + 3) |-> IF i <= limit THEN text[i] ELSE "." ]
  ELSE text

\* Reading a rendered text back, a backslash takes the next character
\* literally: the character at i is escaped when an odd number of
\* backslashes stands directly before it.
IsEscaped(body, i) ==
  LET before == { j \in 1..(i - 1) : body[j] # "\\" }
      start == IF before = {} THEN 0
               ELSE CHOOSE j \in before : \A k \in before : k <= j
  IN  (i - 1 - start) % 2 = 1

\* No double-quote stands unescaped, and every escaping backslash escapes
\* a backslash or a double-quote.
WellEscaped(body) ==
  \A i \in DOMAIN body :
    ~ IsEscaped(body, i) =>
      /\ body[i] # "\""
      /\ body[i] = "\\" => (i < Len(body) /\ body[i + 1] \in {"\\", "\""})

\* The text read back: the escaping backslashes are dropped.
Unescape(body) ==
  LET at == [ i \in DOMAIN body |-> <<i, body[i]>> ]
      kept == SelectSeq(at, LAMBDA c : c[2] # "\\" \/ IsEscaped(body, c[1]))
  IN  [ i \in DOMAIN kept |-> kept[i][2] ]

Spaced(text) == [ i \in DOMAIN text |-> IF text[i] = "\n" THEN " " ELSE text[i] ]

\* A rendered text escapes the kept text: no newline is left, every
\* double-quote and backslash is escaped, and reading it back gives the
\* kept text with its newlines as spaces.
EscapesText(body, kept) ==
  /\ \A i \in DOMAIN body : body[i] # "\n"
  /\ WellEscaped(body)
  /\ Unescape(body) = Spaced(kept)

\* C21: in the rendered name and in the rendered value every backslash and
\* every double-quote of the text is escaped with a backslash and every
\* newline is a space, so the closing quote is the only unescaped
\* double-quote after the opening one.
C21_Escaping ==
  /\ NameShown =>
       NameFramed /\ EscapesText(RenderedName, Shortened(shown[1].name, 80))
  /\ ValueShown =>
       ValueFramed /\ EscapesText(RenderedValue, Shortened(shown[1].value, 120))

\* C22: the rendered name is the first 80 characters of the name followed
\* by "..." exactly when the name is longer than 80, the rendered value the
\* first 120 characters of the value followed by "..." exactly when the
\* value is longer than 120; a shorter text is rendered in full without a
\* suffix.
C22_Truncation ==
  /\ NameShown =>
       /\ NameFramed
       /\ RenderedName
            = IF Len(shown[1].name) > 80
              THEN escape_name(SubSeq(shown[1].name, 1, 80)) \o <<".", ".", ".">>
              ELSE escape_name(shown[1].name)
  /\ ValueShown =>
       /\ ValueFramed
       /\ RenderedValue
            = IF Len(shown[1].value) > 120
              THEN escape_quotes(SubSeq(shown[1].value, 1, 120))
                     \o <<".", ".", ".">>
              ELSE escape_quotes(shown[1].value)

\* C22 witness: a name of 81 characters rendered as its first 80 and "...".
C22_Witness ==
  /\ NameShown
  /\ shown[1].name = [ i \in 1..81 |-> "a" ]
  /\ RenderedName = [ i \in 1..83 |-> IF i <= 80 THEN "a" ELSE "." ]

SpecText == InitEmit /\ [][NextText]_vars

\* ------------------------------------------------------------------------
\* cup/format.py: serialize_compact, the header and the element lines
\*
\* The text returned is modelled as the list of its lines.  An envelope is
\* a record with the keys version, platform, screen, tree and, when
\* present, app and tools.
\* ------------------------------------------------------------------------
\* node.get(...) with the defaults of _format_line, for a pruned node.
RECURSIVE line_nodes(_)
line_nodes(nodes) ==
  [ i \in DOMAIN nodes |->
      [id |-> nodes[i].id, role |-> nodes[i].role,
       name |-> IF nodes[i].name = "" THEN <<>> ELSE << nodes[i].name >>,
       bounds |-> <<>>, states |-> nodes[i].states,
       actions |-> nodes[i].actions, value |-> <<>>, attributes |-> <<>>,
       children |-> line_nodes(nodes[i].children)] ]

\* envelope.get(key) is present and truthy.
Truthy(envelope, key) ==
  key \in DOMAIN envelope /\ envelope[key] # <<>>

window_line(win) ==
  LET title == IF "title" \in DOMAIN win THEN win.title
               ELSE <<"(untitled)">>
      is_fg == IF "foreground" \in DOMAIN win THEN win.foreground ELSE FALSE
  IN  <<"#", " ", " ", " ">>
        \o SubSeq(title, 1, IF Len(title) < 50 THEN Len(title) ELSE 50)
        \o (IF is_fg THEN <<" [fg]">> ELSE <<>>)

header_lines(envelope, window_list, counter, total_before) ==
     << <<"#", " ", "CUP", " ", envelope.version, " ", "|", " ",
          envelope.platform, " ", "|", " ",
          ToString(envelope.screen.w), "x", ToString(envelope.screen.h)>> >>
  \o SeqIf(Truthy(envelope, "app"),
           << <<"#", " ", "app:", " ">>
              \o (IF "name" \in DOMAIN envelope.app
                  THEN << envelope.app.name >> ELSE <<>>) >>)
  \o << <<"#", " ", ToString(counter), " ", "nodes", " ", "(",
          ToString(total_before), " ", "before pruning", ")">> >>
  \o SeqIf(Truthy(envelope, "tools"),
           << <<"#", " ", ToString(Len(envelope.tools)), " ",
                IF Len(envelope.tools) # 1 THEN "WebMCP tools"
                ELSE "WebMCP tool", " ", "available">> >>)
  \o SeqIf(window_list # <<>>,
           << <<"#", " ", "---", " ", ToString(Len(window_list)), " ",
                "open windows", " ", "---">> >>
           \o [ i \in DOMAIN window_list |-> window_line(window_list[i]) ])
  \o << <<>> >>

\* Variant: the header reports the number of root lines.
serialize_compact_counts_roots(envelope, window_list, d) ==
  LET total_before == count_nodes(envelope.tree)
      pruned == prune_tree(envelope.tree, d)
      element_lines == emit_each(line_nodes(pruned), 1, 0)
  IN  header_lines(envelope, window_list, Len(pruned), total_before)
        \o element_lines

\* serialize_compact: the counter is raised once per emitted line.
serialize_compact(envelope, window_list, d) ==
  LET total_before == count_nodes(envelope.tree)
      pruned == prune_tree(envelope.tree, d)
      element_lines == emit_each(line_nodes(pruned), 1, 0)
  IN  header_lines(envelope, window_list, Len(element_lines), total_before)
        \o element_lines

\* The nodes the serialized trees are made of: a wrapper that is hoisted,
\* an unnamed decoration that is skipped, a label and a button.
SerializedKinds ==
  { Attr("generic", "",  <<>>, <<>>),
    Attr("img",     "",  <<>>, <<>>),
    Attr("text",    "A", <<>>, <<>>),
    Attr("button",  "B", <<>>, <<"click">>) }

\* What the envelope carries besides the tree, and the window list given
\* with it.
EnvelopeExtras ==
  { [extra |-> <<>>, windows |-> <<>>],
    [extra |-> [app |-> [name |-> "App", pid |-> 1]],
     windows |-> << [title |-> <<"T">>, foreground |-> TRUE] >>],
    [extra |-> [app |-> [pid |-> 0], tools |-> << "t1" >>],
     windows |-> << [foreground |-> FALSE], [title |-> <<"T">>] >>],
    [extra |-> [tools |-> << "t1", "t2" >>], windows |-> <<>>] }

Envelope(t, extra) ==
  [ key \in {"version", "platform", "screen", "tree"} \cup DOMAIN extra |->
      CASE key = "version" -> "0.1.0"
        [] key = "platform" -> "windows"
        [] key = "screen" -> [w |-> 8, h |-> 6]
        [] key = "tree" -> t
        [] OTHER -> extra[key] ]

InitSerialize ==
  /\ InitPruneIdle
  /\ InitSession
  /\ InitBuilder
  /\ InitWalk
  /\ InitLine
  /\ InitRouter

\* An envelope is serialized at a detail level.
SerializeCompact ==
  /\ lines = <<>>
  /\ \E n \in 0..MaxNodes, d \in Details, x \in EnvelopeExtras :
       \E p \in ParentVecs(n), k \in [1..n -> SerializedKinds] :
         LET t == CapturedTree(n, p, k)
         IN  /\ tree' = t
             /\ detail' = d
             /\ out' = prune_tree(t, d)
             /\ shown' = << Envelope(t, x.extra), x.windows >>
             /\ lines' = serialize_compact(Envelope(t, x.extra), x.windows, d)
  /\ pc' = "serialized"
  /\ UNCHANGED prev
  /\ UNCHANGED <<sessionVars, builderVars, walkVars, routerVars>>

NextSerialize == SerializeCompact

\* The header is what stands before the first empty line, the element
\* lines what stands after it.
HeaderEnd == CHOOSE i \in DOMAIN lines : lines[i] = <<>>

CountLines ==
  { i \in 1..(HeaderEnd - 1) : Len(lines[i]) = 11 /\ lines[i][5] = "nodes" }

\* C23: the header has the line "# N nodes (M before pruning)" where M is
\* the number of nodes of the raw tree, N the number of nodes of
\* prune_tree(tree, detail) and the number of element lines, and N <= M.
C23_HeaderCounts ==
  pc = "serialized" =>
    LET M == Len(Flat(tree))
        N == Len(Flat(out))
    IN  /\ out = prune_tree(tree, detail)
        /\ \E i \in DOMAIN lines : lines[i] = <<>>
        /\ Cardinality(CountLines) = 1
        /\ \A i \in CountLines :
             lines[i] = <<"#", " ", ToString(N), " ", "nodes", " ", "(",
                          ToString(M), " ", "before pruning", ")">>
        /\ Len(lines) - HeaderEnd = N
        /\ N <= M

\* C23 witness: a tree of three nodes is serialized down to one line.
C23_Witness ==
  /\ pc = "serialized"
  /\ Len(Flat(tree)) = 3
  /\ Len(Flat(out)) = 1
  /\ Len(out) = 1 /\ out[1].id = 2
  /\ \E i \in DOMAIN lines :
       lines[i] = <<"#", " ", "1", " ", "nodes", " ", "(", "3", " ",
                    "before pruning", ")">>

SpecSerialize == InitSerialize /\ [][NextSerialize]_vars

\* ------------------------------------------------------------------------
\* Session.find_elements on the last captured pruned tree
\*
\* A name is an atom for pruning; its characters are given by Spelling.
\* An omitted criterion is <<>>, a given one <<x>>.
\* ------------------------------------------------------------------------
Spelling(name) ==
  CASE name = "" -> <<>>
    [] name = "Ok" -> <<"O", "k">>
    [] name = "ok" -> <<"o", "k">>
    [] name = "OK" -> <<"O", "K">>
    [] name = "k" -> <<"k">>
    [] name = "x" -> <<"x">>

\* str.lower, character by character.
lower_char(c) ==
  CASE c = "O" -> "o"
    [] c = "K" -> "k"
    [] c = "C" -> "c"
    [] c = "E" -> "e"
    [] c = "S" -> "s"
    [] OTHER -> c

lower(text) == [ i \in DOMAIN text |-> lower_char(text[i]) ]

\* needle in hay
is_substring(needle, hay) ==
  \E i \in 0..(Len(hay) - Len(needle)) :
    SubSeq(hay, i + 1, i + Len(needle)) = needle

\* Variant: the name is compared as written.
node_matches_case_sensitive(node, role, name, state) ==
  /\ role = <<>> \/ node.role = role[1]
  /\ name = <<>> \/ is_substring(Spelling(name[1]), Spelling(node.name))
  /\ state = <<>> \/ Contains(node.states, state[1])

\* _node_matches: every given criterion must hold.
node_matches(node, role, name, state) ==
  /\ role = <<>> \/ node.role = role[1]
  /\ name = <<>> \/ is_substring(lower(Spelling(name[1])),
                                lower(Spelling(node.name)))
  /\ state = <<>> \/ Contains(node.states, state[1])

\* {k: v for k, v in node.items() if k != "children"}
without_children(node) ==
  [ key \in DOMAIN node \ {"children"} |-> node[key] ]

\* _walk: a matching node is appended before its children are searched.
RECURSIVE search_tree(_, _, _, _, _)
search_tree(nodes, i, role, name, state) ==
  IF i > Len(nodes) THEN <<>>
  ELSE SeqIf(node_matches(nodes[i], role, name, state),
             << without_children(nodes[i]) >>)
       \o search_tree(nodes[i].children, 1, role, name, state)
       \o search_tree(nodes, i + 1, role, name, state)

find_elements(pruned, role, name, state) ==
  search_tree(pruned, 1, role, name, state)

\* The nodes of the searched trees: a wrapper that pruning hoists, a
\* focused button and a label.
FindKinds ==
  { Attr("generic", "",   <<>>,          <<>>),
    Attr("button",  "Ok", <<"focused">>, <<"click">>),
    Attr("text",    "ok", <<>>,          <<>>) }

FindRoles == { <<>>, <<"button">>, <<"generic">> }

FindNames == { <<>>, <<"">>, <<"OK">>, <<"k">>, <<"x">> }

FindStates == { <<>>, <<"focused">> }

InitFind ==
  /\ InitPruneIdle
  /\ InitSession
  /\ InitBuilder
  /\ InitWalk
  /\ InitLine
  /\ InitRouter

\* Session.capture: the tree is captured and its pruned form is kept for
\* later searches.  A session captures again only after a capture that
\* found no element.
SessionCapture ==
  /\ pc \in {"raw", "captured"}
  /\ serial < MaxCaptures
  /\ serial = 0 \/ tree = <<>>
  /\ \E n \in 0..MaxNodes, d \in Details :
       \E p \in ParentVecs(n), k \in [1..n -> FindKinds] :
         /\ tree' = CapturedTree(n, p, k)
         /\ detail' = d
         /\ out' = prune_tree(CapturedTree(n, p, k), d)
  /\ serial' = serial + 1
  /\ pc' = "captured"
  /\ UNCHANGED <<prev, refs, issued, installed, lastCall>>
  /\ UNCHANGED <<builderVars, walkVars, lineVars, routerVars>>

\* Session.find_elements on the tree kept by the last capture.
FindElements ==
  /\ pc = "captured"
  /\ \E role \in FindRoles, name \in FindNames, state \in FindStates :
       lastCall' = [op |-> "find_elements", role |-> role, name |-> name,
                    state |-> state,
                    matches |-> find_elements(out, role, name, state)]
  /\ pc' = "found"
  /\ UNCHANGED <<tree, detail, out, prev, refs, serial, issued, installed>>
  /\ UNCHANGED <<builderVars, walkVars, lineVars, routerVars>>

\* Session.find_elements before any capture: the foreground window is
\* captured first, pruned at the default level.
FindElementsAutoCapture ==
  /\ pc = "raw"
  /\ \E n \in 0..MaxNodes :
       \E p \in ParentVecs(n), k \in [1..n -> FindKinds] :
         \E role \in FindRoles, name \in FindNames, state \in FindStates :
           LET pruned == prune_tree(CapturedTree(n, p, k), "standard")
           IN  /\ tree' = CapturedTree(n, p, k)
               /\ out' = pruned
               /\ lastCall' = [op |-> "find_elements", role |-> role,
                               name |-> name, state |-> state,
                               matches |-> find_elements(pruned, role, name,
                                                         state)]
  /\ detail' = "standard"
  /\ serial' = serial + 1
  /\ pc' = "found"
  /\ UNCHANGED <<prev, refs, issued, installed>>
  /\ UNCHANGED <<builderVars, walkVars, lineVars, routerVars>>

NextFind == SessionCapture \/ FindElements \/ FindElementsAutoCapture

\* The name contains the wanted text when case is ignored.
NameHas(n, wanted) ==
  LET hay == Spelling(n.name)
      needle == Spelling(wanted)
      Same(a, b) == a = b \/ <<a, b>> \in {<<"O", "o">>, <<"o", "O">>,
                                            <<"K", "k">>, <<"k", "K">>}
  IN  \E off \in 0..(Len(hay) - Len(needle)) :
        \A j \in 1..Len(needle) : Same(hay[off + j], needle[j])

Wanted(n, role, name, state) ==
  /\ role # <<>> => n.role = role[1]
  /\ name # <<>> => NameHas(n, name[1])
  /\ state # <<>> => \E i \in DOMAIN n.states : n.states[i] = state[1]

\* C24: the result of find_elements is exactly the nodes of the most
\* recently captured pruned tree, in preorder, whose role equals the role
\* asked for, whose name contains the name asked for when case is ignored
\* and whose states contain the state asked for; an omitted criterion
\* matches every node; each returned node is the node without its children.
C24_FindElements ==
  pc = "found" =>
    LET F == Flat(out)
        hits == SelectSeq(F, LAMBDA r : Wanted(r.n, lastCall.role,
                                               lastCall.name, lastCall.state))
    IN  /\ out = prune_tree(tree, detail)
        /\ lastCall.matches = [ i \in DOMAIN hits |-> hits[i].n ]

\* C24 witness: after a second capture, a search for button, "OK" and
\* focused returns the two buttons under a hoisted wrapper and leaves the
\* label "ok" out.
C24_Witness ==
  /\ pc = "found"
  /\ serial = 2
  /\ lastCall.role = <<"button">>
  /\ lastCall.name = <<"OK">>
  /\ lastCall.state = <<"focused">>
  /\ Len(Flat(tree)) = 3
  /\ tree[1].role = "generic"
  /\ Len(lastCall.matches) = 2
  /\ Len(Flat(out)) = 2

SpecFind == InitFind /\ [][NextFind]_vars

\* ------------------------------------------------------------------------
\* cup/actions/_keys.py: parse_combo
\*
\* A combo is a text of single characters.
\* ------------------------------------------------------------------------
MaxParts == 3

\* combo.split("+")
RECURSIVE split_plus(_, _)
split_plus(text, current) ==
  IF text = <<>> THEN << current >>
  ELSE IF Head(text) = "+"
       THEN << current >> \o split_plus(Tail(text), <<>>)
       ELSE split_plus(Tail(text), Append(current, Head(text)))

\* part.strip()
RECURSIVE strip(_)
strip(text) ==
  IF text = <<>> THEN <<>>
  ELSE IF Head(text) = " " THEN strip(Tail(text))
  ELSE IF text[Len(text)] = " " THEN strip(SubSeq(text, 1, Len(text) - 1))
  ELSE text

MODIFIERS ==
  { <<"c", "t", "r", "l">>, <<"a", "l", "t">>, <<"s", "h", "i", "f", "t">>,
    <<"m", "e", "t", "a">> }

\* return -> enter, esc -> escape, win and cmd -> meta.
canonical(token) ==
  CASE token = <<"r", "e", "t", "u", "r", "n">> -> <<"e", "n", "t", "e", "r">>
    [] token = <<"e", "s", "c">> -> <<"e", "s", "c", "a", "p", "e">>
    [] token = <<"w", "i", "n">> -> <<"m", "e", "t", "a">>
    [] token = <<"c", "m", "d">> -> <<"m", "e", "t", "a">>
    [] OTHER -> token

\* The trimmed, lower-cased, canonical tokens of a combo, empty ones left
\* out.
combo_tokens(combo) ==
  LET parts == split_plus(combo, <<>>)
      trimmed == [ i \in DOMAIN parts |-> lower(strip(parts[i])) ]
      given == SelectSeq(trimmed, LAMBDA t : t # <<>>)
  IN  [ i \in DOMAIN given |-> canonical(given[i]) ]

\* The tokens, each at its first occurrence only.
RECURSIVE first_of_each(_, _)
first_of_each(tokens, seen) ==
  IF tokens = <<>> THEN <<>>
  ELSE IF Head(tokens) \notin seen
       THEN << Head(tokens) >>
              \o first_of_each(Tail(tokens), seen \cup {Head(tokens)})
       ELSE first_of_each(Tail(tokens), seen)

\* Variant: repeated tokens are kept.
parse_combo_keeps_repeats(combo) ==
  LET tokens == combo_tokens(combo)
  IN  [modifiers |-> SelectSeq(tokens, LAMBDA t : t \in MODIFIERS),
       keys |-> SelectSeq(tokens, LAMBDA t : t \notin MODIFIERS)]

parse_combo(combo) ==
  LET tokens == first_of_each(combo_tokens(combo), {})
  IN  [modifiers |-> SelectSeq(tokens, LAMBDA t : t \in MODIFIERS),
       keys |-> SelectSeq(tokens, LAMBDA t : t \notin MODIFIERS)]

\* The parts combos are written with.
ComboParts ==
  { <<>>, <<" ">>,
    <<"c", "t", "r", "l">>, <<" ", "C", "t", "r", "l", " ">>,
    <<"s", "h", "i", "f", "t">>,
    <<"w", "i", "n">>, <<"c", "m", "d">>, <<"m", "e", "t", "a">>,
    <<"E", "S", "C">>, <<"e", "s", "c", "a", "p", "e">>,
    <<"r", "e", "t", "u", "r", "n">>,
    <<"s">>, <<" ", "S">>, <<"f", "5">> }

InitKeys ==
  /\ InitPruneIdle
  /\ InitSession
  /\ InitBuilder
  /\ InitWalk
  /\ InitLine
  /\ InitRouter

\* parse_combo is called with a combo of up to MaxParts parts.
ParseCombo ==
  /\ lastCall.op = "none"
  /\ \E n \in 1..MaxParts :
       \E parts \in [1..n -> ComboParts] :
         LET combo == join(parts, <<"+">>)
         IN  lastCall' = [op |-> "parse_combo", combo |-> combo,
                          result |-> parse_combo(combo)]
  /\ UNCHANGED <<refs, serial, issued, installed>>
  /\ UNCHANGED <<pruneVars, builderVars, walkVars, lineVars, routerVars>>

NextKeys == ParseCombo

NoRepeats(list) ==
  \A i, j \in DOMAIN list : list[i] = list[j] => i = j

FirstAt(tokens, t) ==
  CHOOSE i \in DOMAIN tokens :
    tokens[i] = t /\ \A j \in 1..(i - 1) : tokens[j] # t

\* The list holds exactly the tokens of the set S, without repeats, in the
\* order of their first occurrence.
FirstOccurrences(list, tokens, S) ==
  /\ { list[i] : i \in DOMAIN list }
       = { tokens[i] : i \in DOMAIN tokens } \cap S
  /\ NoRepeats(list)
  /\ \A i, j \in DOMAIN list :
       i < j => FirstAt(tokens, list[i]) < FirstAt(tokens, list[j])

\* The "+"-joined rendering of a result, modifiers first.
Rendering(result) == join(result.modifiers \o result.keys, <<"+">>)

\* C25: tokens are trimmed, lower-cased, empty ones ignored and aliases
\* made canonical; modifiers holds exactly the tokens among ctrl, alt,
\* shift and meta, keys all the others, each in first-occurrence order
\* without repeats; parsing the rendering of a result gives that result.
C25_ParseCombo ==
  lastCall.op = "parse_combo" =>
    LET tokens == combo_tokens(lastCall.combo)
        all == { tokens[i] : i \in DOMAIN tokens }
        r == lastCall.result
    IN  /\ \A t \in all :
             /\ t # <<>>
             /\ t[1] # " " /\ t[Len(t)] # " "
             /\ \A i \in DOMAIN t : t[i] \notin {"C", "E", "S", "+"}
             /\ t \notin { <<"r", "e", "t", "u", "r", "n">>, <<"e", "s", "c">>,
                           <<"w", "i", "n">>, <<"c", "m", "d">> }
        /\ FirstOccurrences(r.modifiers, tokens, MODIFIERS)
        /\ FirstOccurrences(r.keys, tokens, all \ MODIFIERS)
        /\ parse_combo(Rendering(r)) = r

\* C25 witness: " Ctrl +win+cmd" gives the modifiers ctrl and meta once
\* each and no key.
C25_Witness ==
  /\ lastCall.op = "parse_combo"
  /\ lastCall.combo = <<" ", "C", "t", "r", "l", " ", "+", "w", "i", "n", "+",
                        "c", "m", "d">>
  /\ lastCall.result = [modifiers |-> << <<"c", "t", "r", "l">>,
                                         <<"m", "e", "t", "a">> >>,
                        keys |-> <<>>]

SpecKeys == InitKeys /\ [][NextKeys]_vars

\* ------------------------------------------------------------------------
\* cup/format.py: build_envelope
\*
\* An argument left at None is <<>>, a given one <<x>>.  A scale is given
\* in tenths (10 for 1.0).  A dict is a function from its keys.
\* ------------------------------------------------------------------------
\* d[key] = val
put(d, key, val) ==
  [ k \in DOMAIN d \cup {key} |-> IF k = key THEN val ELSE d[k] ]

put_if(cond, d, key, val) == IF cond THEN put(d, key, val) ELSE d

\* bool(x) of an optional text: given and not empty.
truthy(opt) == opt # <<>> /\ opt[1] # ""

\* bool(x) of an optional list: given and not empty.
truthy_list(opt) == opt # <<>> /\ opt[1] # <<>>

\* Variant: a pid of 0 counts as not given.
build_envelope_pid_truthy(a) ==
  LET screen == put_if(a.screen_scale # <<>> /\ a.screen_scale # <<10>>,
                       [w |-> a.screen_w, h |-> a.screen_h],
                       "scale", a.screen_scale[1])
      e1 == [version |-> "0.1.0", platform |-> a.platform,
             timestamp |-> a.now, screen |-> screen]
      e2 == put_if(truthy(a.scope), e1, "scope", a.scope[1])
      has_pid == a.app_pid # <<>> /\ a.app_pid # <<0>>
      app1 == put_if(truthy(a.app_name), <<>>, "name", a.app_name[1])
      app2 == put_if(has_pid, app1, "pid", a.app_pid[1])
      app3 == put_if(truthy(a.app_bundle_id), app2, "bundleId",
                     a.app_bundle_id[1])
      e3 == put_if(truthy(a.app_name) \/ has_pid \/ truthy(a.app_bundle_id),
                   e2, "app", app3)
      e4 == put(e3, "tree", a.tree_data)
  IN  put_if(truthy_list(a.tools), e4, "tools", a.tools[1])

build_envelope(a) ==
  LET screen == put_if(a.screen_scale # <<>> /\ a.screen_scale # <<10>>,
                       [w |-> a.screen_w, h |-> a.screen_h],
                       "scale", a.screen_scale[1])
      e1 == [version |-> "0.1.0", platform |-> a.platform,
             timestamp |-> a.now, screen |-> screen]
      e2 == put_if(truthy(a.scope), e1, "scope", a.scope[1])
      app1 == put_if(truthy(a.app_name), <<>>, "name", a.app_name[1])
      app2 == put_if(a.app_pid # <<>>, app1, "pid", a.app_pid[1])
      app3 == put_if(truthy(a.app_bundle_id), app2, "bundleId",
                     a.app_bundle_id[1])
      e3 == put_if(truthy(a.app_name) \/ a.app_pid # <<>>
                     \/ truthy(a.app_bundle_id),
                   e2, "app", app3)
      e4 == put(e3, "tree", a.tree_data)
  IN  put_if(truthy_list(a.tools), e4, "tools", a.tools[1])

EnvelopeTrees ==
  { <<>>,
    << [id |-> 0, role |-> "button", name |-> "B", states |-> <<>>,
        actions |-> <<"click">>, children |-> <<>>] >> }

InitEnvelope ==
  /\ InitPruneIdle
  /\ InitSession
  /\ InitBuilder
  /\ InitWalk
  /\ InitLine
  /\ InitRouter

\* build_envelope is called at the clock value now.
BuildEnvelope ==
  /\ lastCall.op = "none"
  /\ \E t \in EnvelopeTrees, now \in 1..2,
        scope \in { <<>>, <<"">>, <<"foreground">> },
        scale \in { <<>>, <<0>>, <<10>>, <<20>> } :
       \E name \in { <<>>, <<"">>, <<"App">> }, pid \in { <<>>, <<0>>, <<7>> },
          bundle \in { <<>>, <<"">>, <<"com.app">> },
          tools \in { <<>>, << <<>> >>, << <<"search">> >> } :
         LET a == [tree_data |-> t, platform |-> "windows", scope |-> scope,
                   screen_w |-> 8, screen_h |-> 6, screen_scale |-> scale,
                   app_name |-> name, app_pid |-> pid,
                   app_bundle_id |-> bundle, tools |-> tools, now |-> now]
         IN  lastCall' = [op |-> "build_envelope", args |-> a,
                          envelope |-> build_envelope(a)]
  /\ UNCHANGED <<refs, serial, issued, installed>>
  /\ UNCHANGED <<pruneVars, builderVars, walkVars, lineVars, routerVars>>

NextEnvelope == BuildEnvelope

\* A text argument, and a list argument, that was given and is not empty.
NonEmpty(opt) == Len(opt) = 1 /\ opt[1] # ""

NonEmptyList(opt) == Len(opt) = 1 /\ Len(opt[1]) > 0

\* C26: the envelope always has version "0.1.0", platform, timestamp,
\* screen {w, h} and the given tree; screen.scale iff a scale other than
\* 1.0 is given, scope iff a non-empty scope, tools iff a non-empty tool
\* list, app iff a non-empty name, a pid (0 included) or a non-empty bundle
\* id is given, and app holds exactly the supplied ones as name, pid and
\* bundleId.
C26_EnvelopeKeys ==
  lastCall.op = "build_envelope" =>
    LET a == lastCall.args
        e == lastCall.envelope
        supplied == (IF NonEmpty(a.app_name) THEN {"name"} ELSE {})
                      \cup (IF Len(a.app_pid) = 1 THEN {"pid"} ELSE {})
                      \cup (IF NonEmpty(a.app_bundle_id) THEN {"bundleId"}
                            ELSE {})
    IN  /\ {"version", "platform", "timestamp", "screen", "tree"}
             \subseteq DOMAIN e
        /\ DOMAIN e \subseteq {"version", "platform", "timestamp", "screen",
                               "tree", "scope", "app", "tools"}
        /\ e.version = "0.1.0"
        /\ e.platform = a.platform
        /\ e.timestamp = a.now
        /\ e.tree = a.tree_data
        /\ e.screen.w = a.screen_w /\ e.screen.h = a.screen_h
        /\ DOMAIN e.screen \subseteq {"w", "h", "scale"}
        /\ "scale" \in DOMAIN e.screen
             <=> (Len(a.screen_scale) = 1 /\ a.screen_scale[1] # 10)
        /\ "scale" \in DOMAIN e.screen => e.screen.scale = a.screen_scale[1]
        /\ "scope" \in DOMAIN e <=> NonEmpty(a.scope)
        /\ "scope" \in DOMAIN e => e.scope = a.scope[1]
        /\ "tools" \in DOMAIN e <=> NonEmptyList(a.tools)
        /\ "tools" \in DOMAIN e => e.tools = a.tools[1]
        /\ "app" \in DOMAIN e <=> supplied # {}
        /\ "app" \in DOMAIN e =>
             /\ DOMAIN e.app = supplied
             /\ "name" \in supplied => e.app.name = a.app_name[1]
             /\ "pid" \in supplied => e.app.pid = a.app_pid[1]
             /\ "bundleId" \in supplied => e.app.bundleId = a.app_bundle_id[1]

\* C26 witness: only a pid of 0 and an empty name are given, and the app
\* of the envelope holds the pid alone; no scale, scope or tools.
C26_Witness ==
  /\ lastCall.op = "build_envelope"
  /\ lastCall.args.app_pid = <<0>>
  /\ lastCall.args.app_name = <<"">>
  /\ lastCall.args.screen_scale = <<10>>
  /\ lastCall.args.tools = << <<>> >>
  /\ DOMAIN lastCall.envelope
       = {"version", "platform", "timestamp", "screen", "app", "tree"}
  /\ DOMAIN lastCall.envelope.app = {"pid"}
  /\ lastCall.envelope.app.pid = 0

SpecEnvelope == InitEnvelope /\ [][NextEnvelope]_vars

\* ------------------------------------------------------------------------
\* cup/format.py: prune_tree on objects
\*
\* The heap is the list of the objects made so far; an object is known by
\* its place in the list.  A node dict holds id, role and name, the places
\* of its states and actions lists, and <<>> or <<place>> for its children
\* key.  A list object holds atoms (states, actions) or places of nodes.
\* ------------------------------------------------------------------------
atoms_list(items) == [kind |-> "atoms", items |-> items]

nodes_list(items) == [kind |-> "nodes", items |-> items]

\* The nodes of a tree are put on the heap as a caller holds them: every
\* dict and every list is an object of its own.
RECURSIVE store_node(_, _), store_each(_, _, _), store_nodes(_, _)
store_node(heap, node) ==
  LET h1 == Append(heap, atoms_list(node.states))
      h2 == Append(h1, atoms_list(node.actions))
      kids == IF node.children = <<>> THEN [heap |-> h2, at |-> <<>>]
              ELSE LET r == store_nodes(h2, node.children)
                   IN  [heap |-> r.heap, at |-> << r.at >>]
      h3 == Append(kids.heap,
                   [kind |-> "dict", id |-> node.id, role |-> node.role,
                    name |-> node.name, states |-> Len(h1),
                    actions |-> Len(h2), children |-> kids.at])
  IN  [heap |-> h3, at |-> Len(h3)]

store_each(heap, nodes, i) ==
  IF i > Len(nodes) THEN [heap |-> heap, refs |-> <<>>]
  ELSE LET a == store_node(heap, nodes[i])
           b == store_each(a.heap, nodes, i + 1)
       IN  [heap |-> b.heap, refs |-> << a.at >> \o b.refs]

store_nodes(heap, nodes) ==
  LET r == store_each(heap, nodes, 1)
      h == Append(r.heap, nodes_list(r.refs))
  IN  [heap |-> h, at |-> Len(h)]

\* The tree a list object stands for.
RECURSIVE node_value(_, _), list_value(_, _)
node_value(heap, at) ==
  [id |-> heap[at].id, role |-> heap[at].role, name |-> heap[at].name,
   states |-> heap[heap[at].states].items,
   actions |-> heap[heap[at].actions].items,
   children |-> IF heap[at].children = <<>> THEN <<>>
                ELSE list_value(heap, heap[at].children[1])]

list_value(heap, at) ==
  [ i \in DOMAIN heap[at].items |-> node_value(heap, heap[at].items[i]) ]

\* What node.get(...) reads of a node in _should_hoist and _should_skip.
node_view(heap, at) ==
  [id |-> heap[at].id, role |-> heap[at].role, name |-> heap[at].name,
   states |-> heap[heap[at].states].items,
   actions |-> heap[heap[at].actions].items]

\* node.get("children", [])
children_of(heap, at) ==
  IF heap[at].children = <<>> THEN <<>> ELSE heap[heap[at].children[1]].items

\* pruned = {k: v for k, v in node.items() if k != "children"}, then
\* pruned["children"] = kept when kept is not empty: a new dict holding the
\* same states and actions lists, and a new children list.
pruned_copy(heap, at, kept) ==
  LET h1 == IF kept = <<>> THEN heap ELSE Append(heap, nodes_list(kept))
      h2 == Append(h1, [heap[at] EXCEPT
                          !.children = IF kept = <<>> THEN <<>>
                                       ELSE << Len(h1) >>])
  IN  [heap |-> h2, at |-> Len(h2)]

RECURSIVE prune_node_in(_, _, _, _), prune_each_in(_, _, _, _, _)
prune_each_in(heap, children, i, parent, siblings) ==
  IF i > Len(children) THEN [heap |-> heap, refs |-> <<>>]
  ELSE LET a == prune_node_in(heap, children[i], parent, siblings)
           b == prune_each_in(a.heap, children, i + 1, parent, siblings)
       IN  [heap |-> b.heap, refs |-> a.refs \o b.refs]

prune_node_in(heap, at, parent, siblings) ==
  LET node == node_view(heap, at)
      children == children_of(heap, at)
  IN  IF should_hoist(node)
      THEN prune_each_in(heap, children, 1, parent, Len(children))
      ELSE IF should_skip(node, parent, siblings)
      THEN [heap |-> heap, refs |-> <<>>]
      ELSE LET r == prune_each_in(heap, children, 1, << node >>,
                                  Len(children))
               c == pruned_copy(r.heap, at, r.refs)
           IN  [heap |-> c.heap, refs |-> << c.at >>]

RECURSIVE prune_minimal_node_in(_, _), prune_minimal_each_in(_, _, _)
prune_minimal_each_in(heap, children, i) ==
  IF i > Len(children) THEN [heap |-> heap, refs |-> <<>>]
  ELSE LET a == prune_minimal_node_in(heap, children[i])
           b == prune_minimal_each_in(a.heap, children, i + 1)
       IN  [heap |-> b.heap, refs |-> a.refs \o b.refs]

prune_minimal_node_in(heap, at) ==
  LET r == prune_minimal_each_in(heap, children_of(heap, at), 1)
  IN  IF has_meaningful_actions(node_view(heap, at)) \/ r.refs # <<>>
      THEN LET c == pruned_copy(r.heap, at, r.refs)
           IN  [heap |-> c.heap, refs |-> << c.at >>]
      ELSE [heap |-> r.heap, refs |-> <<>>]

\* copy.deepcopy(tree): every list and dict reachable from the tree is
\* made anew (the tree shares nothing within itself).
deepcopy(heap, at) == store_nodes(heap, list_value(heap, at))

\* Variant: "full" returns a new list of the same node dicts.
prune_tree_in_same_nodes(heap, at, d) ==
  IF d = "full"
  THEN [heap |-> Append(heap, nodes_list(heap[at].items)),
        at |-> Len(heap) + 1]
  ELSE LET r == IF d = "minimal"
                THEN prune_minimal_each_in(heap, heap[at].items, 1)
                ELSE prune_each_in(heap, heap[at].items, 1, <<>>,
                                   Len(heap[at].items))
       IN  [heap |-> Append(r.heap, nodes_list(r.refs)),
            at |-> Len(r.heap) + 1]

\* prune_tree(tree, detail) for the list object at, giving the heap after
\* the call and the place of the returned list.
prune_tree_in(heap, at, d) ==
  IF d = "full" THEN deepcopy(heap, at)
  ELSE LET r == IF d = "minimal"
                THEN prune_minimal_each_in(heap, heap[at].items, 1)
                ELSE prune_each_in(heap, heap[at].items, 1, <<>>,
                                   Len(heap[at].items))
       IN  [heap |-> Append(r.heap, nodes_list(r.refs)),
            at |-> Len(r.heap) + 1]

\* The objects reachable from a list of nodes.
RECURSIVE reachable(_, _)
reachable(heap, at) ==
  {at} \cup UNION { {n, heap[n].states, heap[n].actions}
                      \cup (IF heap[n].children = <<>> THEN {}
                            ELSE reachable(heap, heap[n].children[1]))
                    : n \in { heap[at].items[i] : i \in DOMAIN heap[at].items } }

\* A write to one object: a dict gets another name, a states or actions
\* list another item, a list of nodes loses its last node.
written(obj) ==
  CASE obj.kind = "dict" -> [obj EXCEPT !.name = "Changed"]
    [] obj.kind = "atoms" -> [obj EXCEPT !.items = Append(@, "changed")]
    [] obj.kind = "nodes" ->
         [obj EXCEPT !.items = SubSeq(@, 1, IF @ = <<>> THEN 0 ELSE Len(@) - 1)]

InitObjects ==
  /\ InitPruneIdle
  /\ InitSession
  /\ InitBuilder
  /\ InitWalk
  /\ InitLine
  /\ InitRouter

\* prune_tree is called on a tree the caller holds.
PruneTreeCall ==
  /\ lastCall.op = "none"
  /\ \E n \in 0..MaxNodes, d \in Details :
       \E p \in ParentVecs(n), k \in [1..n -> SerializedKinds] :
         LET held == store_nodes(<<>>, CapturedTree(n, p, k))
             r == prune_tree_in(held.heap, held.at, d)
         IN  lastCall' = [op |-> "prune_tree", detail |-> d,
                          input |-> held.at, before |-> held.heap,
                          heap |-> r.heap, result |-> r.at]
  /\ UNCHANGED <<refs, serial, issued, installed>>
  /\ UNCHANGED <<pruneVars, builderVars, walkVars, lineVars, routerVars>>

\* The caller writes to an object of the returned tree.
WriteResult ==
  /\ lastCall.op = "prune_tree"
  /\ \E x \in reachable(lastCall.heap, lastCall.result) :
       lastCall' = [lastCall EXCEPT
                      !.op = "written",
                      !.heap = [@ EXCEPT ![x] = written(@)]]
  /\ UNCHANGED <<refs, serial, issued, installed>>
  /\ UNCHANGED <<pruneVars, builderVars, walkVars, lineVars, routerVars>>

NextObjects == PruneTreeCall \/ WriteResult

\* C27: after prune_tree at any detail level every object of the input is
\* as it was; for full the result equals the input and shares no object
\* with it, and a write to the result leaves the input as it was.
C27_InputUnchanged ==
  /\ lastCall.op = "prune_tree" =>
       /\ Len(lastCall.heap) >= Len(lastCall.before)
       /\ \A a \in DOMAIN lastCall.before :
            lastCall.heap[a] = lastCall.before[a]
       /\ lastCall.detail = "full" =>
            /\ list_value(lastCall.heap, lastCall.result)
                 = list_value(lastCall.before, lastCall.input)
            /\ reachable(lastCall.heap, lastCall.result)
                 \cap reachable(lastCall.heap, lastCall.input) = {}
  /\ (lastCall.op = "written" /\ lastCall.detail = "full") =>
       \A a \in DOMAIN lastCall.before : lastCall.heap[a] = lastCall.before[a]

\* C27 witness: a full copy of a tree of two nodes was written to and now
\* differs from the input, which still reads as before.
C27_Witness ==
  /\ lastCall.op = "written"
  /\ lastCall.detail = "full"
  /\ Len(Flat(list_value(lastCall.before, lastCall.input))) = 2
  /\ list_value(lastCall.heap, lastCall.input)
       = list_value(lastCall.before, lastCall.input)
  /\ list_value(lastCall.heap, lastCall.result)
       # list_value(lastCall.heap, lastCall.input)

SpecObjects == InitObjects /\ [][NextObjects]_vars

\* ------------------------------------------------------------------------
\* cup/actions/_linux.py and _macos.py: the handlers of the backends that
\* are not implemented
\*
\* The outcome of a call is [raised, result] with result = <<>> or
\* <<ActionResult>>.  An error text is the list of its pieces.
\* ------------------------------------------------------------------------
ActionResult(success, message, error) ==
  [success |-> success, message |-> message, error |-> error]

Returned(result) == [raised |-> FALSE, result |-> << result >>]

Raised == [raised |-> TRUE, result |-> <<>>]

LinuxActionHandler(method, arg) ==
  CASE method = "execute" ->
         Returned(ActionResult(FALSE, "",
                    <<"Linux action '", arg.action, "' is not yet implemented">>))
    [] method = "press_keys" ->
         Returned(ActionResult(FALSE, "",
                    <<"Linux press_keys '", arg.combo,
                      "' is not yet implemented">>))
    [] method = "launch_app" ->
         Returned(ActionResult(FALSE, "",
                    <<"Linux launch_app '", arg.name,
                      "' is not yet implemented">>))

\* What a method the class does not define does when called: the base
\* class ActionHandler decides, by returning a failure or by raising.
InheritedOutcomes ==
  { Returned(ActionResult(FALSE, "", <<"not implemented">>)), Raised }

\* MacosActionHandler defines execute and press_keys only; launch_app is
\* whatever it inherits.
MacosActionHandler(method, arg, inherited) ==
  CASE method = "execute" ->
         Returned(ActionResult(FALSE, "",
                    <<"macOS action execution is not yet implemented">>))
    [] method = "press_keys" ->
         Returned(ActionResult(FALSE, "",
                    <<"macOS keyboard input is not yet implemented">>))
    [] method = "launch_app" -> inherited

HandlerActions ==
  {"click", "type", "setvalue", "scroll", "focus", "fly", ""}

HandlerArguments ==
  [method : {"execute"}, native_ref : {0, 1, 2}, action : HandlerActions,
   params : { <<>>, [value |-> "v"], [direction |-> "up"] }]
    \cup [method : {"press_keys"}, combo : {"", "enter", "ctrl+s", "+"}]
    \cup [method : {"launch_app"}, name : {"", "notepad", "Safari"}]

InitHandlers ==
  /\ InitPruneIdle
  /\ InitSession
  /\ InitBuilder
  /\ InitWalk
  /\ InitLine
  /\ InitRouter

\* A method of the Linux or of the macOS handler is called.
CallHandler ==
  /\ lastCall.op = "none"
  /\ \E platform \in {"linux", "macos"}, arg \in HandlerArguments,
        inherited \in InheritedOutcomes :
       lastCall' = [op |-> "handler", platform |-> platform, arg |-> arg,
                    outcome |-> IF platform = "linux"
                                THEN LinuxActionHandler(arg.method, arg)
                                ELSE MacosActionHandler(arg.method, arg,
                                                        inherited)]
  /\ UNCHANGED <<refs, serial, issued, installed>>
  /\ UNCHANGED <<pruneVars, builderVars, walkVars, lineVars, routerVars>>

NextHandlers == CallHandler

\* C28: on the Linux and macOS handlers each of execute, press_keys and
\* launch_app returns, for any arguments, a result with success = false
\* and a non-empty error text, and never raises.
C28_SoftFailure ==
  lastCall.op = "handler" =>
    /\ ~ lastCall.outcome.raised
    /\ Len(lastCall.outcome.result) = 1
    /\ lastCall.outcome.result[1].success = FALSE
    /\ \E i \in DOMAIN lastCall.outcome.result[1].error :
         lastCall.outcome.result[1].error[i] # ""

\* The same for the methods the two classes define themselves.
C28_DefinedMethodsFailSoftly ==
  (/\ lastCall.op = "handler"
   /\ ~ (lastCall.platform = "macos" /\ lastCall.arg.method = "launch_app")) =>
    /\ ~ lastCall.outcome.raised
    /\ Len(lastCall.outcome.result) = 1
    /\ lastCall.outcome.result[1].success = FALSE
    /\ \E i \in DOMAIN lastCall.outcome.result[1].error :
         lastCall.outcome.result[1].error[i] # ""

SpecHandlers == InitHandlers /\ [][NextHandlers]_vars

\* ------------------------------------------------------------------------
\* cup/_router.py: get_adapter and the cached adapter instance
\*
\* adapters lists the adapter objects created so far, each with its
\* platform name and the number of times its initialize() has run to the
\* end; adapter_instance is <<>> for None or <<place in adapters>>.
\* ------------------------------------------------------------------------
MaxAdapters == 3

\* The outcome of a get_adapter call: a RuntimeError or another exception
\* raised, or the adapter returned.
RaisedIn(state) ==
  [instance |-> state.instance, adapters |-> state.adapters,
   raised |-> TRUE, returned |-> <<>>]

\* <<>> stands for the RuntimeError of an unsupported sys.platform.
detect_platform(host) ==
  CASE host = "win32" -> <<"windows">>
    [] host = "darwin" -> <<"macos">>
    [] host = "linux" -> <<"linux">>
    [] OTHER -> <<>>

ADAPTER_PLATFORMS == {"windows", "macos", "linux", "web"}

\* Variant: the new adapter is cached only once initialize() has returned.
create_adapter_cache_after_initialize(state, platform, created, initialized) ==
  IF platform \notin ADAPTER_PLATFORMS \/ ~ created \/ ~ initialized
  THEN RaisedIn(state)
  ELSE LET made == Append(state.adapters,
                          [platform_name |-> platform, initialized |-> 1])
       IN  [instance |-> << Len(made) >>, adapters |-> made,
            raised |-> FALSE, returned |-> << Len(made) >>]

\* The part of get_adapter after the cache test: the adapter is created
\* and assigned to _adapter_instance, then initialized, then returned.
\* created and initialized tell whether the constructor (with its import)
\* and initialize() return rather than raise.
create_adapter(state, platform, created, initialized) ==
  IF platform \notin ADAPTER_PLATFORMS \/ ~ created
  THEN RaisedIn(state)
  ELSE LET made == Append(state.adapters,
                          [platform_name |-> platform, initialized |-> 0])
           cached == [instance |-> << Len(made) >>, adapters |-> made]
       IN  IF ~ initialized THEN RaisedIn(cached)
           ELSE [instance |-> cached.instance,
                 adapters |-> [made EXCEPT ![Len(made)].initialized = @ + 1],
                 raised |-> FALSE, returned |-> cached.instance]

\* get_adapter(platform) with platform = <<>> for None.
get_adapter(state, host, platform, created, initialized) ==
  LET wanted == IF platform = <<>> THEN detect_platform(host) ELSE platform
  IN  IF wanted = <<>> THEN RaisedIn(state)
      ELSE IF /\ state.instance # <<>>
              /\ state.adapters[state.instance[1]].platform_name = wanted[1]
      THEN [instance |-> state.instance, adapters |-> state.adapters,
            raised |-> FALSE, returned |-> state.instance]
      ELSE create_adapter(state, wanted[1], created, initialized)

Hosts == {"win32", "linux", "sunos5"}

RequestedPlatforms == { <<>>, <<"windows">>, <<"web">>, <<"amiga">> }

\* The process runs on one host; nothing else has happened.
InitAdapters ==
  /\ InitPruneIdle
  /\ InitSession
  /\ InitBuilder
  /\ InitWalk
  /\ InitLine
  /\ sys_platform \in Hosts
  /\ adapter_instance = <<>>
  /\ adapters = <<>>

\* get_adapter is called; at most MaxAdapters adapters are ever created.
GetAdapter ==
  /\ Len(adapters) < MaxAdapters
  /\ \E platform \in RequestedPlatforms, created, initialized \in BOOLEAN :
       LET r == get_adapter([instance |-> adapter_instance,
                             adapters |-> adapters],
                            sys_platform, platform, created, initialized)
       IN  /\ adapter_instance' = r.instance
           /\ adapters' = r.adapters
           /\ lastCall' = [op |-> "get_adapter", platform |-> platform,
                           raised |-> r.raised, returned |-> r.returned]
  /\ UNCHANGED <<refs, serial, issued, installed, sys_platform>>
  /\ UNCHANGED <<pruneVars, builderVars, walkVars, lineVars>>

NextAdapters == GetAdapter

\* The platform a call asks for.
Asked(call) ==
  IF call.platform # <<>> THEN call.platform
  ELSE CASE sys_platform = "win32" -> <<"windows">>
         [] sys_platform = "darwin" -> <<"macos">>
         [] sys_platform = "linux" -> <<"linux">>
         [] OTHER -> <<>>

ReturnedInitializedOnce ==
  (lastCall.op = "get_adapter" /\ lastCall.returned # <<>>) =>
    adapters[lastCall.returned[1]].initialized = 1

SamePlatformSameInstance ==
  (/\ lastCall.op = "get_adapter" /\ lastCall.returned # <<>>
   /\ lastCall'.op = "get_adapter"
   /\ Asked(lastCall') = Asked(lastCall)) =>
    /\ lastCall'.returned = lastCall.returned
    /\ adapters' = adapters

\* C29: after any sequence of get_adapter calls, with calls for different
\* platforms and calls in which initialize raised, every adapter returned
\* has had initialize() run to the end exactly once since it was created,
\* and consecutive calls for the same platform return the same instance
\* without creating or initializing another.
C29_AdapterCache ==
  [] ReturnedInitializedOnce /\ [][SamePlatformSameInstance]_vars

\* The second half of C29 alone.
C29_SameInstance == [][SamePlatformSameInstance]_vars

SpecAdapters == InitAdapters /\ [][NextAdapters]_vars

====
